---- MODULE Spec2Model ----
(***************************************************************************)
(* Account ledger of the basana backtesting engine                         *)
(* (basana/backtesting/account_balances.py) and the orders it works with   *)
(* (basana/backtesting/orders.py): the order state machine and the fill    *)
(* algorithm of each order kind.                                           *)
(* Decimal amounts are modelled as integers (Decimal arithmetic is         *)
(* exact on them); Python dicts are functions with a finite domain; a      *)
(* raised exception ends the call and keeps whatever the call had already  *)
(* assigned.                                                               *)
(***************************************************************************)
EXTENDS Integers, FiniteSets, Sequences, TLC

VARIABLES
    ledger_class,       \* "AccountBalances" or "FuturesAccountBalances"
    orders,             \* order id -> Order / FuturesOrder object
    balances,           \* self._balances
    holds_by_symbol,    \* self._holds_by_symbol
    holds_by_order,     \* self._holds_by_order
    margins_by_symbol,  \* self._margins_by_symbol (futures ledger)
    margins_by_order,   \* self._margins_by_order  (futures ledger)
    index_orders,       \* the order index: the ids of the registered orders
    open_orders,        \* the order index: the cache of open orders (ids)
    reindex_counter     \* the order index: reads since the last compaction

vars == <<ledger_class, orders, balances, holds_by_symbol, holds_by_order,
          margins_by_symbol, margins_by_order,
          index_orders, open_orders, reindex_counter>>

index_vars == <<index_orders, open_orders, reindex_counter>>

ledger_vars == <<balances, holds_by_symbol, holds_by_order,
                 margins_by_symbol, margins_by_order>>

-----------------------------------------------------------------------------
(* Bounds of the model *)

\* largest order amount / quantity
MaxAmount == 2
\* largest amount a caller asks to hold
MaxHold == 2
\* largest settled balance (in absolute value) the model follows
MaxBalance == 3
\* Contract.margin_requirement of the modelled contract
MarginRequirement == 2

-----------------------------------------------------------------------------
(* Python dict helpers *)

EmptyDict == [key \in {} |-> 0]

\* dict.get(key, default)
Get(dict, key, default) == IF key \in DOMAIN dict THEN dict[key] ELSE default

\* dict[key] = value
Put(dict, key, value) ==
    [k \in DOMAIN dict \cup {key} |-> IF k = key THEN value ELSE dict[k]]

\* a pop that reads the entry and leaves it in the dict
Without_kept(dict, key) == dict

\* dict.pop(key): the dict without the key
Without(dict, key) == [k \in DOMAIN dict \ {key} |-> dict[k]]

Max(a, b) == IF a >= b THEN a ELSE b
Min(a, b) == IF a <= b THEN a ELSE b
Abs(a) == IF a < 0 THEN 0 - a ELSE a

ZERO == 0

\* add_amounts that forgets the keys only rhs has
add_amounts_lhs_keys(lhs, rhs) ==
    [key \in DOMAIN lhs |-> Get(lhs, key, ZERO) + Get(rhs, key, ZERO)]

\* helpers.add_amounts
add_amounts(lhs, rhs) ==
    [key \in DOMAIN lhs \cup DOMAIN rhs |->
        Get(lhs, key, ZERO) + Get(rhs, key, ZERO)]

-----------------------------------------------------------------------------
(* Pair, OrderOperation, OrderState, Order *)

BUY == "BUY"
SELL == "SELL"
OrderOperation == {BUY, SELL}

OPEN == "OPEN"
COMPLETED == "COMPLETED"
CANCELED == "CANCELED"
OrderState == {OPEN, COMPLETED, CANCELED}

\* the Pair / Contract every order of the model trades
pair == [base_symbol |-> "BTC", quote_symbol |-> "USD"]
Symbols == {pair.base_symbol, pair.quote_symbol}

OrderIds == {"1", "2"}

\* Order.is_open
is_open(order) == order.state = OPEN

\* Order.amount_filled without the absolute value
amount_filled_signed(order) == Get(order.balance_updates, pair.base_symbol, 0)

\* Order.amount_filled, FuturesOrder.quantity_filled
amount_filled(order) == Abs(Get(order.balance_updates, pair.base_symbol, 0))

\* Order.amount_pending
amount_pending(order) == order.amount - amount_filled(order)


\* a cancel without the assertion on the state
cancel_any_state(order) ==
    [order |-> [order EXCEPT !.state = CANCELED], raised |-> "none"]

\* Order.cancel
cancel(order) ==
    IF order.state # OPEN
    THEN [order |-> order, raised |-> "AssertionError"]
    ELSE [order |-> [order EXCEPT !.state = CANCELED], raised |-> "none"]

\* an add_fill that accumulates the amounts and records no Fill
add_fill_unrecorded(order, balance_updates, fees) ==
    LET updated == [order EXCEPT
            !.balance_updates = add_amounts(@, balance_updates),
            !.fees = add_amounts(@, fees)]
    IN  [order |-> [updated EXCEPT
            !.state = IF amount_filled(updated) >= updated.amount
                      THEN COMPLETED ELSE @],
         raised |-> "none"]

\* an add_fill that takes what it fills out of the opening quantity
add_fill_consuming_opening(order, balance_updates, fees) ==
    LET updated == [order EXCEPT
            !.balance_updates = add_amounts(@, balance_updates),
            !.fees = add_amounts(@, fees)]
        state == IF amount_filled(updated) >= updated.amount
                 THEN COMPLETED ELSE updated.state
    IN  [order |-> [updated EXCEPT
            !.state = state,
            !.opening_quantity =
                Max(0, @ - Abs(Get(balance_updates, pair.base_symbol, 0))),
            !.fills = Append(@, [balance_updates |-> balance_updates,
                                 fees |-> fees])],
         raised |-> "none"]

\* Order.add_fill
add_fill(order, balance_updates, fees) ==
    LET updated == [order EXCEPT
            !.balance_updates = add_amounts(@, balance_updates),
            !.fees = add_amounts(@, fees)]
        state == IF amount_filled(updated) >= updated.amount
                 THEN COMPLETED ELSE updated.state
    IN  [order |-> [updated EXCEPT
            !.state = state,
            !.fills = Append(@, [balance_updates |-> balance_updates,
                                 fees |-> fees])],
         raised |-> "none"]

-----------------------------------------------------------------------------
(* AccountBalances *)

\* the ledger object
Self == [balances |-> balances,
         holds_by_symbol |-> holds_by_symbol,
         holds_by_order |-> holds_by_order,
         margins_by_symbol |-> margins_by_symbol,
         margins_by_order |-> margins_by_order]

Raise(self, exception) == [self |-> self, raised |-> exception]
Return(self) == [self |-> self, raised |-> "none"]

\* AccountBalances.get_balance_on_hold
get_balance_on_hold(self, symbol) == Get(self.holds_by_symbol, symbol, 0)

\* an available balance that also subtracts the amount on margin
get_available_balance_less_margin(self, symbol) ==
    Get(self.balances, symbol, 0) - get_balance_on_hold(self, symbol)
    - Get(self.margins_by_symbol, symbol, 0)

\* AccountBalances.get_available_balance
get_available_balance(self, symbol) ==
    Get(self.balances, symbol, 0) - get_balance_on_hold(self, symbol)

\* AccountBalances.get_balance_on_hold_for_order
get_balance_on_hold_for_order(self, order_id, symbol) ==
    Get(Get(self.holds_by_order, order_id, EmptyDict), symbol, 0)

\* AccountBalances._get_hold_symbol
AccountBalances_get_hold_symbol(order) ==
    IF order.operation = BUY THEN pair.quote_symbol ELSE pair.base_symbol

\* order_accepted without the assertion on the hold amount
valid_hold_amount_unchecked(hold_amount) == TRUE

\* the assertion on the hold amount in order_accepted
valid_hold_amount(hold_amount) == hold_amount >= 0

\* AccountBalances.order_accepted
AccountBalances_order_accepted(self, order, required_balance) ==
    IF ~is_open(order) THEN Raise(self, "AssertionError")
    ELSE IF order.id \in DOMAIN self.holds_by_order
    THEN Raise(self, "AssertionError")
    ELSE
    LET symbol == AccountBalances_get_hold_symbol(order)
        hold_amount == Get(required_balance, symbol, 0)
        holds == (symbol :> hold_amount)
    IN  IF ~valid_hold_amount(hold_amount) THEN Raise(self, "AssertionError")
        ELSE Return([self EXCEPT
                !.holds_by_symbol = add_amounts(@, holds),
                !.holds_by_order = Put(@, order.id, holds)])

\* order_updated without the assertion on the hold entry
order_was_accepted_unchecked(self, order) == TRUE

\* the precondition of order_updated: the order has a hold entry
order_was_accepted(self, order) == order.id \in DOMAIN self.holds_by_order

\* a release of whatever was spent, without the clamp to the amount on hold
open_hold_release_unclamped(amount_on_hold, amount_spent) == amount_spent

\* an open-order update that releases nothing
open_hold_release_nothing(amount_on_hold, amount_spent) == 0

\* an open-order update that releases the whole hold of the order
open_hold_release_all(amount_on_hold, amount_spent) == 0 - amount_on_hold

\* order_updated, order still open: the change of the order's hold
open_hold_release(amount_on_hold, amount_spent) ==
    Max(0 - amount_on_hold, amount_spent)

\* a terminal update that forgets to release the holds of the symbols
terminal_hold_updates_nothing(holds) ==
    [symbol \in DOMAIN holds |-> 0]

\* order_updated, order terminal: the change of the popped holds
terminal_hold_updates(holds) ==
    [symbol \in DOMAIN holds |-> 0 - holds[symbol]]

\* AccountBalances.order_updated
AccountBalances_order_updated(self, order, balance_updates) ==
    IF ~order_was_accepted(self, order) THEN Raise(self, "AssertionError")
    ELSE
    LET \* Update balances.
        self1 == [self EXCEPT
                    !.balances = add_amounts(@, balance_updates)]
        symbol == AccountBalances_get_hold_symbol(order)
    IN  IF is_open(order)
        THEN
            IF order.id \notin DOMAIN self1.holds_by_order
               \/ symbol \notin DOMAIN self1.holds_by_order[order.id]
            THEN Raise(self1, "KeyError")
            ELSE
            LET amount_on_hold == self1.holds_by_order[order.id][symbol]
                amount_spent == Get(balance_updates, symbol, 0)
                hold_updates ==
                    (symbol :> open_hold_release(amount_on_hold, amount_spent))
            IN  IF ~(amount_spent <= 0) THEN Raise(self1, "AssertionError")
                ELSE Return([self1 EXCEPT
                        !.holds_by_order = Put(@, order.id,
                            add_amounts(@[order.id], hold_updates)),
                        !.holds_by_symbol = add_amounts(@, hold_updates)])
        ELSE
            IF order.id \notin DOMAIN self1.holds_by_order
            THEN Raise(self1, "KeyError")
            ELSE
            LET hold_updates ==
                    terminal_hold_updates(self1.holds_by_order[order.id])
            IN  Return([self1 EXCEPT
                    !.holds_by_order = Without(@, order.id),
                    !.holds_by_symbol = add_amounts(@, hold_updates)])

-----------------------------------------------------------------------------
(* FuturesAccountBalances *)

\* a futures ledger without its own _get_hold_symbol
FuturesAccountBalances_inherited_hold_symbol(order) ==
    IF order.operation = BUY THEN pair.quote_symbol ELSE pair.base_symbol

\* FuturesAccountBalances._get_hold_symbol
FuturesAccountBalances_get_hold_symbol(order) == pair.quote_symbol

\* FuturesAccountBalances._get_margin_symbol
get_margin_symbol(order) == pair.quote_symbol

\* FuturesAccountBalances.get_balance_on_margin
get_balance_on_margin(self, symbol) == Get(self.margins_by_symbol, symbol, 0)

\* FuturesAccountBalances.get_balance_on_margin_for_order
get_balance_on_margin_for_order(self, order_id, symbol) ==
    Get(Get(self.margins_by_order, order_id, EmptyDict), symbol, 0)

\* an acceptance that records the margin of the symbol and not of the order
order_margin_accepted_symbol_only(self, order, required_margin_balance) ==
    LET symbol == pair.quote_symbol
        margin_amount == Get(required_margin_balance, symbol, 0)
    IN  IF ~order.futures \/ ~is_open(order)
        THEN Raise(self, "AssertionError")
        ELSE Return([self EXCEPT
                !.margins_by_symbol =
                    add_amounts(@, (symbol :> margin_amount))])

\* FuturesAccountBalances.order_margin_accepted
order_margin_accepted(self, order, required_margin_balance) ==
    IF ~order.futures THEN Raise(self, "AssertionError")
    ELSE IF ~is_open(order) THEN Raise(self, "AssertionError")
    ELSE IF order.id \in DOMAIN self.margins_by_order
    THEN Raise(self, "AssertionError")
    ELSE
    LET symbol == get_margin_symbol(order)
        margin_amount == Get(required_margin_balance, symbol, 0)
        margins == (symbol :> margin_amount)
    IN  Return([self EXCEPT
            !.margins_by_symbol = add_amounts(@, margins),
            !.margins_by_order = Put(@, order.id, margins)])

\* FuturesAccountBalances.order_accepted
FuturesAccountBalances_order_accepted(self, order, required_balance) ==
    IF ~is_open(order) THEN Raise(self, "AssertionError")
    ELSE IF order.id \in DOMAIN self.holds_by_order
    THEN Raise(self, "AssertionError")
    ELSE
    LET symbol == FuturesAccountBalances_get_hold_symbol(order)
        hold_amount == Get(required_balance, symbol, 0)
        holds == (symbol :> hold_amount)
    IN  IF ~valid_hold_amount(hold_amount) THEN Raise(self, "AssertionError")
        ELSE Return([self EXCEPT
                !.holds_by_symbol = add_amounts(@, holds),
                !.holds_by_order = Put(@, order.id, holds)])

\* a margin of an open order on the opening quantity still pending
open_margin_quantity_pending(order) ==
    Min(order.opening_quantity, amount_pending(order))

\* a margin of an open order on the opening quantity already filled
open_margin_quantity_filled(order) ==
    Min(order.opening_quantity, amount_filled(order))

\* order_updated, order still open: the quantity the margin is computed on
open_margin_quantity(order) == order.opening_quantity

\* a terminal update that keeps the margin of the whole opening quantity
terminal_margin_quantity_opening(order) == order.opening_quantity

\* order_updated, order terminal: the quantity the margin is computed on
\* ("Release everything that wasn't filled")
terminal_margin_quantity(order) ==
    Min(order.opening_quantity, amount_filled(order))

\* a terminal update that pops the margin entry of the order
terminal_margins_by_order_popped(margins, order_id, margin_updates) ==
    [id \in DOMAIN margins \ {order_id} |-> margins[id]]

\* order_updated, order terminal: the new self._margins_by_order
terminal_margins_by_order(margins, order_id, margin_updates) ==
    Put(margins, order_id,
        add_amounts(Get(margins, order_id, EmptyDict), margin_updates))

\* FuturesAccountBalances.order_updated, "Update margins for the order"
update_margins(self, order) ==
    LET symbol == get_margin_symbol(order)
    IN  IF is_open(order)
        THEN
            IF order.opening_quantity = 0 THEN Return(self)
            ELSE IF order.id \notin DOMAIN self.margins_by_order
                    \/ symbol \notin DOMAIN self.margins_by_order[order.id]
            THEN Raise(self, "KeyError")
            ELSE
            LET amount_on_margin == self.margins_by_order[order.id][symbol]
                new_amount_on_margin ==
                    open_margin_quantity(order) * MarginRequirement
                margin_updates ==
                    (symbol :> (new_amount_on_margin - amount_on_margin))
            IN  Return([self EXCEPT
                    !.margins_by_order = Put(@, order.id,
                        add_amounts(@[order.id], margin_updates)),
                    !.margins_by_symbol = add_amounts(@, margin_updates)])
        ELSE
            LET quantity == terminal_margin_quantity(order)
                amount_on_margin ==
                    Get(Get(self.margins_by_order, order.id, EmptyDict),
                        symbol, 0)
                new_amount_on_margin == quantity * MarginRequirement
                margin_updates ==
                    (symbol :> (new_amount_on_margin - amount_on_margin))
            IN  Return([self EXCEPT
                    !.margins_by_order =
                        terminal_margins_by_order(@, order.id,
                                                  margin_updates),
                    !.margins_by_symbol = add_amounts(@, margin_updates)])

\* FuturesAccountBalances.order_updated
FuturesAccountBalances_order_updated(self, order, balance_updates) ==
    IF ~order.futures THEN Raise(self, "AssertionError")
    ELSE IF ~order_was_accepted(self, order)
    THEN Raise(self, "AssertionError")
    ELSE
    LET \* Update balances.
        self1 == [self EXCEPT
                    !.balances = add_amounts(@, balance_updates)]
        symbol == FuturesAccountBalances_get_hold_symbol(order)
    IN  IF is_open(order)
        THEN
            IF order.id \notin DOMAIN self1.holds_by_order
               \/ symbol \notin DOMAIN self1.holds_by_order[order.id]
            THEN Raise(self1, "KeyError")
            ELSE
            LET amount_on_hold == self1.holds_by_order[order.id][symbol]
                amount_spent == Get(balance_updates, symbol, 0)
                hold_updates ==
                    (symbol :> open_hold_release(amount_on_hold, amount_spent))
            IN  IF ~(amount_spent <= 0) THEN Raise(self1, "AssertionError")
                ELSE update_margins([self1 EXCEPT
                        !.holds_by_order = Put(@, order.id,
                            add_amounts(@[order.id], hold_updates)),
                        !.holds_by_symbol = add_amounts(@, hold_updates)],
                        order)
        ELSE
            IF order.id \notin DOMAIN self1.holds_by_order
            THEN Raise(self1, "KeyError")
            ELSE
            LET hold_updates ==
                    terminal_hold_updates(self1.holds_by_order[order.id])
            IN  update_margins([self1 EXCEPT
                    !.holds_by_order = Without(@, order.id),
                    !.holds_by_symbol = add_amounts(@, hold_updates)],
                    order)

-----------------------------------------------------------------------------
(* Inputs of the calls *)

\* helpers.get_base_sign_for_operation
get_base_sign_for_operation(operation) == IF operation = BUY THEN 1 ELSE 0 - 1

Prices == {1}

\* a fill as get_balance_updates returns it: the base amount with the sign
\* of the operation, the quote amount with the opposite sign
Fill(operation, amount, price) ==
    LET base_sign == get_base_sign_for_operation(operation)
    IN  (pair.base_symbol :> amount * base_sign)
        @@ (pair.quote_symbol :> price * amount * (0 - base_sign))

Fills == {Fill(operation, amount, price) :
            operation \in OrderOperation, amount \in 1..MaxAmount,
            price \in Prices}

\* the balance_updates passed to order_updated
BalanceUpdates == {EmptyDict} \cup Fills

\* the required_balance passed to order_accepted
RequiredBalances ==
    {EmptyDict} \cup
    {(symbol :> amount) : symbol \in Symbols,
                          amount \in {0 - 1} \cup 1..MaxHold}

\* the required_margin_balance passed to order_margin_accepted
RequiredMargins(order) ==
    {EmptyDict,
     (pair.quote_symbol :> order.opening_quantity * MarginRequirement)}

\* the initial_balances passed to the constructor
InitialBalances == {(pair.quote_symbol :> MaxHold)}

\* Order.__init__ / FuturesOrder.__init__
NewOrder(id, operation, amount, futures, opening_quantity, closing_quantity) ==
    [id |-> id, operation |-> operation, amount |-> amount, state |-> OPEN,
     balance_updates |-> EmptyDict, fees |-> EmptyDict, fills |-> << >>,
     futures |-> futures,
     opening_quantity |-> opening_quantity,
     closing_quantity |-> closing_quantity]

\* The orders a ledger of the given class is used with.  The futures ledger
\* never reads order.operation, so its two orders are one BUY and one SELL;
\* the BUY order opens a position with all its quantity or with all but one
\* unit of it, the SELL order with its quantity or with none of it.  Order
\* "1" is for MaxAmount units and can be filled in parts, order "2" is for
\* one unit.  The closing quantity of a futures order is the rest of its
\* quantity, as helpers.get_trade_side_quantities splits it.
OrderAmount(id) == IF id = "1" THEN MaxAmount ELSE 1

NewOrders(class, id) ==
    IF class = "FuturesAccountBalances"
    THEN {NewOrder(id, IF id = "1" THEN BUY ELSE SELL, OrderAmount(id), TRUE,
                   opening_quantity, OrderAmount(id) - opening_quantity) :
            opening_quantity \in
                IF id = "1" THEN {MaxAmount - 1, MaxAmount} ELSE {0, 1}}
    ELSE {NewOrder(id, operation, OrderAmount(id), FALSE, 0, 0) :
            operation \in OrderOperation}

InRange(amounts) ==
    \A symbol \in DOMAIN amounts :
        amounts[symbol] >= 0 - MaxBalance /\ amounts[symbol] <= MaxBalance

-----------------------------------------------------------------------------
(* The state machine *)

\* self._get_hold_symbol(order), dispatched on the class of the ledger
get_hold_symbol(order) ==
    IF ledger_class = "AccountBalances"
    THEN AccountBalances_get_hold_symbol(order)
    ELSE FuturesAccountBalances_get_hold_symbol(order)

\* self.order_accepted(order, required_balance), dispatched on the class
order_accepted(self, order, required_balance) ==
    IF ledger_class = "AccountBalances"
    THEN AccountBalances_order_accepted(self, order, required_balance)
    ELSE FuturesAccountBalances_order_accepted(self, order, required_balance)

\* self.order_updated(order, balance_updates), dispatched on the class
order_updated(self, order, balance_updates) ==
    IF ledger_class = "AccountBalances"
    THEN AccountBalances_order_updated(self, order, balance_updates)
    ELSE FuturesAccountBalances_order_updated(self, order, balance_updates)

\* OrderIndex.__init__: no order, an empty cache
EmptyIndex ==
    /\ index_orders = {}
    /\ open_orders = << >>
    /\ reindex_counter = 0

Init ==
    /\ ledger_class \in {"AccountBalances", "FuturesAccountBalances"}
    /\ orders \in {o \in [OrderIds -> UNION {NewOrders(ledger_class, id) :
                                                id \in OrderIds}] :
                     \A id \in OrderIds : o[id].id = id}
    /\ balances \in InitialBalances
    /\ holds_by_symbol = EmptyDict
    /\ holds_by_order = EmptyDict
    /\ margins_by_symbol = EmptyDict
    /\ margins_by_order = EmptyDict
    /\ EmptyIndex

Assign(self) ==
    /\ balances' = self.balances
    /\ holds_by_symbol' = self.holds_by_symbol
    /\ holds_by_order' = self.holds_by_order
    /\ margins_by_symbol' = self.margins_by_symbol
    /\ margins_by_order' = self.margins_by_order

\* order.cancel()
Cancel(id) ==
    LET result == cancel(orders[id])
    IN  /\ orders' = [orders EXCEPT ![id] = result.order]
        /\ UNCHANGED <<ledger_class, ledger_vars, index_vars>>

\* order.add_fill(when, balance_updates, {}); the model adds the fills of an
\* order one unit at a time and never fills more than the order's amount
AddFill(id, balance_updates) ==
    LET result == add_fill(orders[id], balance_updates, EmptyDict)
    IN  /\ amount_filled(result.order) <= orders[id].amount
        /\ orders' = [orders EXCEPT ![id] = result.order]
        /\ UNCHANGED <<ledger_class, ledger_vars, index_vars>>

\* balances.order_accepted(order, required_balance)
OrderAccepted(id, required_balance) ==
    LET result == order_accepted(Self, orders[id], required_balance)
    IN  /\ Assign(result.self)
        /\ UNCHANGED <<ledger_class, orders, index_vars>>

\* balances.order_margin_accepted(order, required_margin_balance)
OrderMarginAccepted(id, required_margin_balance) ==
    LET result == order_margin_accepted(Self, orders[id],
                                        required_margin_balance)
    IN  /\ ledger_class = "FuturesAccountBalances"
        /\ Assign(result.self)
        /\ UNCHANGED <<ledger_class, orders, index_vars>>

\* balances.order_updated(order, balance_updates)
OrderUpdated(id, balance_updates) ==
    LET result == order_updated(Self, orders[id], balance_updates)
    IN  /\ InRange(result.self.balances)
        /\ Assign(result.self)
        /\ UNCHANGED <<ledger_class, orders, index_vars>>

Next ==
    \/ \E id \in OrderIds : Cancel(id)
    \/ \E id \in OrderIds, price \in Prices :
            AddFill(id, Fill(orders[id].operation, 1, price))
    \/ \E id \in OrderIds, required_balance \in RequiredBalances :
            OrderAccepted(id, required_balance)
    \/ \E id \in OrderIds :
        \E required_margin_balance \in RequiredMargins(orders[id]) :
            OrderMarginAccepted(id, required_margin_balance)
    \/ \E id \in OrderIds, balance_updates \in BalanceUpdates :
            OrderUpdated(id, balance_updates)

Spec == Init /\ [][Next]_vars

-----------------------------------------------------------------------------
(* The ledger behind a caller that validates funds: an order is accepted   *)
(* only when its required hold is available, and order_updated gets the    *)
(* fills get_balance_updates produces for the order (or nothing).          *)

\* the check of the caller before order_accepted
HoldIsAvailable(id, required_balance) ==
    LET symbol == get_hold_symbol(orders[id])
    IN  Get(required_balance, symbol, 0)
        <= get_available_balance(Self, symbol)

\* the fills get_balance_updates can return for the order
OrderFills(order) ==
    {Fill(order.operation, amount, price) :
        amount \in 1..MaxAmount, price \in Prices}

ValidatedOrderAccepted(id, required_balance) ==
    /\ HoldIsAvailable(id, required_balance)
    /\ OrderAccepted(id, required_balance)

FillOrderUpdated(id, balance_updates) ==
    /\ balance_updates \in {EmptyDict} \cup OrderFills(orders[id])
    /\ OrderUpdated(id, balance_updates)

NextValidated ==
    \/ \E id \in OrderIds : Cancel(id)
    \/ \E id \in OrderIds, price \in Prices :
            AddFill(id, Fill(orders[id].operation, 1, price))
    \/ \E id \in OrderIds, required_balance \in RequiredBalances :
            ValidatedOrderAccepted(id, required_balance)
    \/ \E id \in OrderIds :
        \E required_margin_balance \in RequiredMargins(orders[id]) :
            OrderMarginAccepted(id, required_margin_balance)
    \/ \E id \in OrderIds, balance_updates \in BalanceUpdates :
            FillOrderUpdated(id, balance_updates)

SpecValidated == Init /\ [][NextValidated]_vars

-----------------------------------------------------------------------------
(* Properties of the ledger *)

RECURSIVE SumHolds(_, _, _)
\* the sum over the given orders of the hold each has on the symbol
SumHolds(self, ids, symbol) ==
    IF ids = {} THEN 0
    ELSE LET id == CHOOSE i \in ids : TRUE
         IN  get_balance_on_hold_for_order(self, id, symbol)
             + SumHolds(self, ids \ {id}, symbol)

\* every order id the ledger or the caller knows
KnownIds == OrderIds \cup DOMAIN holds_by_order

\* the other order of the model
Other(id) == CHOOSE other \in OrderIds : other # id

\* the order was never accepted: it is still open (an order never reopens)
\* and has no hold entry (an entry is only removed for a terminal order)
NeverAccepted(id) == is_open(orders[id]) /\ id \notin DOMAIN holds_by_order

\* C1: in every state reached by order_accepted and order_updated calls
\* (failed calls included), for every symbol the aggregate hold
\* holds_by_symbol[s] is the sum over the orders of holds_by_order[o][s],
\* a missing entry counting as 0.
C1_HoldsBySymbolIsSumOfOrders ==
    \A symbol \in Symbols \cup DOMAIN holds_by_symbol :
        Get(holds_by_symbol, symbol, 0) = SumHolds(Self, KnownIds, symbol)

\* C1 witness: both orders hold the quote symbol, one of them after a fill
\* released part of its hold
C1_Witness ==
    /\ DOMAIN holds_by_order = OrderIds
    /\ \E id \in OrderIds :
        /\ Get(holds_by_order[id], pair.quote_symbol, 0) = 1
        /\ Get(holds_by_order[Other(id)], pair.quote_symbol, 0) = MaxHold
    /\ Get(balances, pair.quote_symbol, 0) < MaxHold
    /\ Get(holds_by_symbol, pair.quote_symbol, 0) = MaxHold + 1

\* C2: the hold recorded for an order is never negative, whatever the open
\* order updates cost.
C2_HoldNeverNegative ==
    \A id \in KnownIds, symbol \in Symbols :
        get_balance_on_hold_for_order(Self, id, symbol) >= 0

\* C2 witness: an open order, the only one ever accepted, has spent more of
\* its hold symbol than any hold it can have been given (the settled balance
\* started at MaxHold and is negative), and its hold is 0
C2_Witness ==
    \E id \in OrderIds :
        /\ is_open(orders[id])
        /\ NeverAccepted(Other(id))
        /\ id \in DOMAIN holds_by_order
        /\ holds_by_order[id] = (get_hold_symbol(orders[id]) :> 0)
        /\ get_hold_symbol(orders[id]) = pair.quote_symbol
        /\ Get(balances, pair.quote_symbol, 0) < 0

\* C3: an order_updated applied to an accepted order that is COMPLETED or
\* CANCELED succeeds, removes the order's entry of holds_by_order, leaves it
\* a hold of 0 and lowers holds_by_symbol by what the order held; and when
\* no order has an entry left, every holds_by_symbol value is 0.
C3_TerminalUpdateReleasesAll ==
    /\ \A id \in DOMAIN holds_by_order, balance_updates \in BalanceUpdates :
        ~is_open(orders[id]) =>
            LET result == order_updated(Self, orders[id], balance_updates)
            IN  /\ result.raised = "none"
                /\ id \notin DOMAIN result.self.holds_by_order
                /\ \A symbol \in Symbols :
                    /\ get_balance_on_hold_for_order(result.self, id, symbol)
                       = 0
                    /\ get_balance_on_hold(result.self, symbol)
                       = get_balance_on_hold(Self, symbol)
                         - get_balance_on_hold_for_order(Self, id, symbol)
    /\ DOMAIN holds_by_order = {} =>
        \A symbol \in Symbols : get_balance_on_hold(Self, symbol) = 0

\* C3 witness: both orders are terminal and have lost their entries, and
\* holds_by_symbol has an entry for the base and the quote symbol (so both a
\* BUY and a SELL order were accepted and released)
C3_Witness ==
    /\ \A id \in OrderIds : ~is_open(orders[id])
    /\ holds_by_order = EmptyDict
    /\ DOMAIN holds_by_symbol = Symbols

\* C4: in every ledger state, for every order that can be accepted and every
\* hold H >= 0: order_accepted, order.cancel() and order_updated(order, {})
\* in a row leave get_available_balance and get_balance_on_hold of every
\* symbol as they were before the acceptance.
C4_AcceptCancelRoundTrip ==
    \A id \in OrderIds, required_balance \in RequiredBalances :
        LET accepted == order_accepted(Self, orders[id], required_balance)
            canceled == cancel(orders[id])
            released == order_updated(accepted.self, canceled.order,
                                      EmptyDict)
        IN  accepted.raised = "none" =>
                /\ canceled.raised = "none"
                /\ released.raised = "none"
                /\ \A symbol \in Symbols :
                    /\ get_available_balance(released.self, symbol)
                       = get_available_balance(Self, symbol)
                    /\ get_balance_on_hold(released.self, symbol)
                       = get_balance_on_hold(Self, symbol)

\* C4 witness: an order without any fill was accepted, canceled and
\* released (it has no entry but its hold symbol has one) while the other
\* order keeps a hold, and the settled balances are the initial ones
C4_Witness ==
    \E id \in OrderIds :
        /\ orders[id].state = CANCELED
        /\ orders[id].fills = << >>
        /\ DOMAIN holds_by_order = {Other(id)}
        /\ is_open(orders[Other(id)])
        /\ get_hold_symbol(orders[id]) # get_hold_symbol(orders[Other(id)])
        /\ DOMAIN holds_by_symbol = Symbols
        /\ balances \in InitialBalances

\* C5 (as claimed): behind a caller that accepts an order only when its
\* required hold is available and that applies the fills of
\* get_balance_updates, the available balance of the hold symbol of an
\* order is never negative.
C5_AvailableNeverNegative ==
    \A id \in OrderIds :
        get_available_balance(Self, get_hold_symbol(orders[id])) >= 0

\* C5 (amended): behind such a caller, as long as the available balances of
\* the hold symbols are not negative, no call makes one negative provided
\* the fill passed to order_updated spends no more of the hold symbol than
\* the order has left on hold.  (The initial balances are not negative, so
\* the available balance stays non-negative along every sequence of such
\* calls.)
C5_CoveredFillsKeepAvailable ==
    C5_AvailableNeverNegative =>
        \A id \in OrderIds, held \in OrderIds :
            LET symbol == get_hold_symbol(orders[held])
            IN  /\ \A required_balance \in RequiredBalances :
                    HoldIsAvailable(id, required_balance) =>
                        get_available_balance(
                            order_accepted(Self, orders[id],
                                           required_balance).self,
                            symbol) >= 0
                /\ \A required_margin_balance
                        \in RequiredMargins(orders[id]) :
                    get_available_balance(
                        order_margin_accepted(Self, orders[id],
                                              required_margin_balance).self,
                        symbol) >= 0
                /\ \A balance_updates
                        \in {EmptyDict} \cup OrderFills(orders[id]) :
                    0 - Get(balance_updates, get_hold_symbol(orders[id]), 0)
                        <= get_balance_on_hold_for_order(
                                Self, id, get_hold_symbol(orders[id])) =>
                        get_available_balance(
                            order_updated(Self, orders[id],
                                          balance_updates).self,
                            symbol) >= 0

\* C5 witness: the only order ever accepted got the whole available balance
\* as its hold and a fill has spent part of it: the settled balance and the
\* hold went down together and the available balance is still 0
C5_Witness ==
    \E id \in OrderIds :
        /\ NeverAccepted(Other(id))
        /\ is_open(orders[id])
        /\ id \in DOMAIN holds_by_order
        /\ holds_by_order[id] = (pair.quote_symbol :> (MaxHold - 1))
        /\ Get(balances, pair.quote_symbol, 0) = MaxHold - 1
        /\ Get(balances, pair.base_symbol, 0) = 1
        /\ get_available_balance(Self, pair.quote_symbol) = 0

\* C6: for every symbol the available balance is the settled balance minus
\* the aggregate hold; the amount on margin is not subtracted, so neither
\* order_margin_accepted nor the margin bookkeeping of order_updated changes
\* the available balance of any symbol.
C6_AvailableIsSettledMinusHeld ==
    /\ \A symbol \in Symbols :
        get_available_balance(Self, symbol)
        = Get(balances, symbol, 0) - Get(holds_by_symbol, symbol, 0)
    /\ ledger_class = "FuturesAccountBalances" =>
        \A id \in OrderIds, symbol \in Symbols :
            /\ \A required_margin_balance \in RequiredMargins(orders[id]) :
                get_available_balance(
                    order_margin_accepted(Self, orders[id],
                                          required_margin_balance).self,
                    symbol)
                = get_available_balance(Self, symbol)
            /\ get_available_balance(update_margins(Self, orders[id]).self,
                                     symbol)
               = get_available_balance(Self, symbol)

\* C6 witness: a futures ledger with an amount on margin and an amount on
\* hold for the quote symbol, of which only the hold lowers the available
\* balance
C6_Witness ==
    /\ ledger_class = "FuturesAccountBalances"
    /\ get_balance_on_margin(Self, pair.quote_symbol) = MarginRequirement
    /\ get_balance_on_hold(Self, pair.quote_symbol) = 1
    /\ Get(balances, pair.quote_symbol, 0) = MaxHold
    /\ get_available_balance(Self, pair.quote_symbol) = MaxHold - 1

\* the hold symbol as the ledger contract states it
ContractHoldSymbol(order) ==
    IF ledger_class = "AccountBalances" /\ order.operation = SELL
    THEN pair.base_symbol
    ELSE pair.quote_symbol

\* C7: a successful order_accepted adds exactly required_balance[hold
\* symbol] to the order's hold and to holds_by_symbol[hold symbol] (quote
\* symbol for BUY and base symbol for SELL in the spot ledger, always the
\* quote symbol in the futures ledger) and changes neither the settled
\* balances nor any other hold (nor the margins).
C7_AcceptedHoldsRequiredBalance ==
    \A id \in OrderIds, required_balance \in RequiredBalances :
        LET result == order_accepted(Self, orders[id], required_balance)
            hold_symbol == ContractHoldSymbol(orders[id])
            hold_amount == Get(required_balance, hold_symbol, 0)
        IN  result.raised = "none" =>
            /\ get_balance_on_hold_for_order(result.self, id, hold_symbol)
               = get_balance_on_hold_for_order(Self, id, hold_symbol)
                 + hold_amount
            /\ result.self.holds_by_order[id] = (hold_symbol :> hold_amount)
            /\ get_balance_on_hold(result.self, hold_symbol)
               = get_balance_on_hold(Self, hold_symbol) + hold_amount
            /\ result.self.balances = balances
            /\ \A symbol \in Symbols \ {hold_symbol} :
                get_balance_on_hold(result.self, symbol)
                = get_balance_on_hold(Self, symbol)
            /\ \A other \in KnownIds \ {id} :
                /\ other \in DOMAIN holds_by_order
                   <=> other \in DOMAIN result.self.holds_by_order
                /\ other \in DOMAIN holds_by_order =>
                    result.self.holds_by_order[other] = holds_by_order[other]
            /\ result.self.margins_by_symbol = margins_by_symbol
            /\ result.self.margins_by_order = margins_by_order

\* C7 witness: a futures ledger holds the quote symbol for a SELL order next
\* to the hold of the other order
C7_Witness ==
    /\ ledger_class = "FuturesAccountBalances"
    /\ \E id \in OrderIds :
        /\ orders[id].operation = SELL
        /\ DOMAIN holds_by_order = OrderIds
        /\ holds_by_order[id] = (pair.quote_symbol :> MaxHold)
        /\ holds_by_order[Other(id)] = (pair.quote_symbol :> 1)
        /\ holds_by_symbol = (pair.quote_symbol :> (MaxHold + 1))
        /\ balances \in InitialBalances

\* C8: order_accepted fails when the order is not OPEN, when the order
\* already has a hold entry, or when the required hold amount is negative,
\* and then leaves the ledger as it was.
C8_AcceptedPreconditions ==
    \A id \in OrderIds, required_balance \in RequiredBalances :
        LET result == order_accepted(Self, orders[id], required_balance)
            hold_amount ==
                Get(required_balance, ContractHoldSymbol(orders[id]), 0)
        IN  (\/ ~is_open(orders[id])
             \/ id \in DOMAIN holds_by_order
             \/ hold_amount < 0) =>
                result.raised = "AssertionError" /\ result.self = Self

\* C8 witness: one order is accepted and still open (a second acceptance
\* fails), the other was canceled before any acceptance (its acceptance
\* fails); a negative hold can be asked for in any state
C8_Witness ==
    \E id \in OrderIds :
        /\ is_open(orders[id])
        /\ id \in DOMAIN holds_by_order
        /\ get_balance_on_hold_for_order(Self, id,
                                         get_hold_symbol(orders[id])) > 0
        /\ orders[Other(id)].state = CANCELED
        /\ Other(id) \notin DOMAIN holds_by_order
        /\ \E required_balance \in RequiredBalances :
            Get(required_balance, get_hold_symbol(orders[id]), 0) < 0

\* C9: order_updated fails for an order without a hold entry (never
\* accepted, or already released by a terminal order_updated) and then
\* leaves balances, holds and margins as they were; so the terminal release
\* of an order is applied at most once.
C9_UpdateNeedsHoldEntry ==
    /\ \A id \in OrderIds \ DOMAIN holds_by_order,
          balance_updates \in BalanceUpdates :
        LET result == order_updated(Self, orders[id], balance_updates)
        IN  result.raised = "AssertionError" /\ result.self = Self
    /\ \A id \in DOMAIN holds_by_order, balance_updates \in BalanceUpdates :
        ~is_open(orders[id]) =>
            LET released == order_updated(Self, orders[id], balance_updates)
                again == order_updated(released.self, orders[id],
                                       balance_updates)
            IN  released.raised = "none" =>
                    /\ again.raised = "AssertionError"
                    /\ again.self = released.self

\* C9 witness: one order was accepted with a hold and released by a terminal
\* order_updated (it is terminal, has no entry, and the other order has
\* never been accepted), and the other order has never been accepted
C9_Witness ==
    \E id \in OrderIds :
        /\ ~is_open(orders[id])
        /\ id \notin DOMAIN holds_by_order
        /\ get_hold_symbol(orders[id]) \in DOMAIN holds_by_symbol
        /\ NeverAccepted(Other(id))

\* C10 (as claimed): an order_updated call on an OPEN accepted order whose
\* delta for the hold symbol is positive fails and leaves the ledger
\* (settled balances, holds_by_order, holds_by_symbol) as it was.
C10_PositiveSpentAborts ==
    [][\A id \in DOMAIN holds_by_order, balance_updates \in BalanceUpdates :
        (/\ is_open(orders[id])
         /\ Get(balance_updates, get_hold_symbol(orders[id]), 0) > 0
         /\ OrderUpdated(id, balance_updates)) =>
            /\ order_updated(Self, orders[id], balance_updates).raised
               = "AssertionError"
            /\ UNCHANGED <<balances, holds_by_symbol, holds_by_order>>]_vars

-----------------------------------------------------------------------------
(* Properties of the margins of the futures ledger *)

\* the margin of the whole opening quantity of the order
OpeningMargin(order) == order.opening_quantity * MarginRequirement

\* the margin of the part of the opening quantity that is filled
FilledOpeningMargin(order) ==
    Min(order.opening_quantity, amount_filled(order)) * MarginRequirement

\* the margin the ledger records for the order
MarginOf(self, id) ==
    get_balance_on_margin_for_order(self, id, pair.quote_symbol)

\* C22: order_margin_accepted with opening_quantity x margin_requirement
\* makes that amount the margin of the order, and as long as the futures
\* order is OPEN every call (order_updated after a partial fill included)
\* leaves the margin of the order at opening_quantity x margin_requirement,
\* whatever its closing_quantity; with opening_quantity = 0 that is 0,
\* with or without a margin entry.
C22_OpenOrderKeepsOpeningMargin ==
    /\ [](\A id \in OrderIds :
            LET accepted == order_margin_accepted(
                    Self, orders[id],
                    (pair.quote_symbol :> OpeningMargin(orders[id])))
            IN  (orders[id].futures /\ accepted.raised = "none") =>
                    MarginOf(accepted.self, id) = OpeningMargin(orders[id]))
    /\ [][\A id \in OrderIds :
            (/\ orders[id].futures
             /\ is_open(orders[id])
             /\ \/ id \in DOMAIN margins_by_order
                \/ orders[id].opening_quantity = 0
             /\ MarginOf(Self, id) = OpeningMargin(orders[id])) =>
                Get(Get(margins_by_order', id, EmptyDict),
                    pair.quote_symbol, 0) = OpeningMargin(orders[id])]_vars

\* C22 witness: an open futures order with a closing quantity has one unit
\* filled and applied to the ledger (the other order has done nothing), and
\* its margin is that of its opening quantity
C22_Witness ==
    /\ ledger_class = "FuturesAccountBalances"
    /\ \E id \in OrderIds :
        /\ is_open(orders[id])
        /\ orders[id].closing_quantity > 0
        /\ orders[id].opening_quantity > 0
        /\ amount_filled(orders[id]) = 1
        /\ Get(balances, pair.base_symbol, 0) = 1
        /\ NeverAccepted(Other(id))
        /\ orders[Other(id)].fills = << >>
        /\ id \in DOMAIN holds_by_order
        /\ id \in DOMAIN margins_by_order
        /\ MarginOf(Self, id) = OpeningMargin(orders[id])

\* the successful order_updated call changed the per-symbol margin by what
\* it changed the margin of the order
SameMarginDelta(self, updated, id) ==
    get_balance_on_margin(updated, pair.quote_symbol)
    - get_balance_on_margin(self, pair.quote_symbol)
    = MarginOf(updated, id) - MarginOf(self, id)

\* C23 (as claimed): every successful order_updated call of the futures
\* ledger for an order with opening_quantity > 0, open or terminal, sets the
\* margin of the order to min(opening_quantity, quantity_filled) x
\* margin_requirement and applies the same delta to the per-symbol margin.
C23_UpdateSetsFilledOpeningMargin ==
    \A id \in DOMAIN holds_by_order, balance_updates \in BalanceUpdates :
        \A order \in {orders[id]} :
            (order.futures /\ order.opening_quantity > 0) =>
                \A result \in {order_updated(Self, order, balance_updates)} :
                    result.raised = "none" =>
                        /\ MarginOf(result.self, id)
                           = FilledOpeningMargin(order)
                        /\ SameMarginDelta(Self, result.self, id)

\* C23 (amended): every successful order_updated call of the futures ledger
\* for an order with opening_quantity > 0 sets the margin of the order to
\* opening_quantity x margin_requirement while the order is OPEN, and to
\* min(opening_quantity, quantity_filled) x margin_requirement once it is
\* terminal, and applies the same delta to the per-symbol margin.
C23_UpdateSetsMarginByState ==
    \A id \in DOMAIN holds_by_order, balance_updates \in BalanceUpdates :
        \A order \in {orders[id]} :
            (order.futures /\ order.opening_quantity > 0) =>
                \A result \in {order_updated(Self, order, balance_updates)} :
                    result.raised = "none" =>
                        /\ MarginOf(result.self, id)
                           = IF is_open(order) THEN OpeningMargin(order)
                             ELSE FilledOpeningMargin(order)
                        /\ SameMarginDelta(Self, result.self, id)

\* C23 witness: one order is OPEN with a unit filled and applied to the
\* ledger and has the margin of its whole opening quantity, which is more
\* than the margin of what is filled; the other order is COMPLETED, its hold
\* was released by a terminal update, and it has the margin of its filled
\* opening quantity
C23_Witness ==
    \E id \in OrderIds :
        /\ orders[id].futures
        /\ is_open(orders[id])
        /\ amount_filled(orders[id]) = 1
        /\ id \in DOMAIN holds_by_order
        /\ Get(balances, pair.base_symbol, 0) # 0
        /\ MarginOf(Self, id) = OpeningMargin(orders[id])
        /\ MarginOf(Self, id) > FilledOpeningMargin(orders[id])
        /\ orders[Other(id)].state = COMPLETED
        /\ Other(id) \notin DOMAIN holds_by_order
        /\ Other(id) \in DOMAIN margins_by_order
        /\ MarginOf(Self, Other(id)) = FilledOpeningMargin(orders[Other(id)])
        /\ MarginOf(Self, Other(id)) > 0

\* C24: when a futures order that was accepted is CANCELED (after partial
\* fills or none) and order_updated(order, {}) is applied, the call succeeds
\* and the margin left for the order is min(opening_quantity,
\* quantity_filled) x margin_requirement; the per-symbol margin changes by
\* the same amount, so a full opening margin loses the margin of the
\* unfilled opening remainder; and nothing is left when opening_quantity = 0.
C24_CancelKeepsFilledOpeningMargin ==
    \A id \in DOMAIN holds_by_order : \A order \in {orders[id]} :
        (order.futures /\ order.state = CANCELED) =>
            \A result \in {order_updated(Self, order, EmptyDict)} :
                /\ result.raised = "none"
                /\ MarginOf(result.self, id) = FilledOpeningMargin(order)
                /\ SameMarginDelta(Self, result.self, id)
                /\ MarginOf(Self, id) = OpeningMargin(order) =>
                    get_balance_on_margin(result.self, pair.quote_symbol)
                    = get_balance_on_margin(Self, pair.quote_symbol)
                      - (order.opening_quantity
                         - Min(order.opening_quantity, amount_filled(order)))
                        * MarginRequirement
                /\ order.opening_quantity = 0 => MarginOf(result.self, id) = 0
                /\ result.self.balances = balances

\* C24 witness: an order was canceled after a partial fill that left part
\* of its opening quantity unfilled and the terminal update was applied (its
\* hold entry is gone): its margin, and the margin of the symbol (the other
\* order was never accepted for margin), is that of what was filled
C24_Witness ==
    \E id \in OrderIds :
        /\ orders[id].futures
        /\ orders[id].state = CANCELED
        /\ amount_filled(orders[id]) = 1
        /\ orders[id].opening_quantity > 1
        /\ id \notin DOMAIN holds_by_order
        /\ get_balance_on_hold(Self, pair.quote_symbol) = 0
        /\ Other(id) \notin DOMAIN margins_by_order
        /\ MarginOf(Self, id) = MarginRequirement
        /\ get_balance_on_margin(Self, pair.quote_symbol) = MarginRequirement

RECURSIVE SumMargins(_, _, _)
\* the sum over the given orders of the margin each has on the symbol
SumMargins(self, ids, symbol) ==
    IF ids = {} THEN 0
    ELSE LET id == CHOOSE i \in ids : TRUE
         IN  get_balance_on_margin_for_order(self, id, symbol)
             + SumMargins(self, ids \ {id}, symbol)

\* C25: in every state reached by order_margin_accepted, order_accepted and
\* order_updated calls (failed calls included), for every symbol
\* margins_by_symbol[s] is the sum over the orders of margins_by_order[o][s],
\* a missing entry counting as 0.
C25_MarginsBySymbolIsSumOfOrders ==
    \A symbol \in Symbols \cup DOMAIN margins_by_symbol :
        Get(margins_by_symbol, symbol, 0)
        = SumMargins(Self, OrderIds \cup DOMAIN margins_by_order, symbol)

\* C25 witness: both orders have a margin, one of them OPEN with its whole
\* opening margin, the other canceled and left with less than its opening
\* margin by the terminal update, and the margin of the symbol is the
\* sum of the two
C25_Witness ==
    \E id \in OrderIds :
        /\ DOMAIN margins_by_order = OrderIds
        /\ is_open(orders[id])
        /\ MarginOf(Self, id) = OpeningMargin(orders[id])
        /\ MarginOf(Self, id) > 0
        /\ orders[Other(id)].state = CANCELED
        /\ Other(id) \notin DOMAIN holds_by_order
        /\ MarginOf(Self, Other(id)) > 0
        /\ MarginOf(Self, Other(id)) < OpeningMargin(orders[Other(id)])
        /\ get_balance_on_margin(Self, pair.quote_symbol)
           = MarginOf(Self, id) + MarginOf(Self, Other(id))

\* C26 (as claimed): the order_updated call of the futures ledger that
\* observes an accepted order in a terminal state releases all the margin
\* of the order and deletes its margins_by_order entry, as it deletes its
\* hold entry: no ledger entry of the order remains.
C26_TerminalUpdateDeletesMargin ==
    \A id \in DOMAIN holds_by_order, balance_updates \in BalanceUpdates :
        \A order \in {orders[id]} :
            (order.futures /\ ~is_open(order)) =>
                \A result \in {order_updated(Self, order, balance_updates)} :
                    /\ result.raised = "none"
                    /\ id \notin DOMAIN result.self.holds_by_order
                    /\ id \notin DOMAIN result.self.margins_by_order
                    /\ MarginOf(result.self, id) = 0

\* C26 (amended): the order_updated call of the futures ledger that observes
\* an accepted order in a terminal state succeeds and deletes the hold entry
\* of the order, but not its margin entry: afterwards margins_by_order has an
\* entry for the order (created if there was none) with min(opening_quantity,
\* quantity_filled) x margin_requirement, so the margin is all released only
\* when no opening quantity was filled.
C26_TerminalUpdateKeepsMarginEntry ==
    \A id \in DOMAIN holds_by_order, balance_updates \in BalanceUpdates :
        \A order \in {orders[id]} :
            (order.futures /\ ~is_open(order)) =>
                \A result \in {order_updated(Self, order, balance_updates)} :
                    /\ result.raised = "none"
                    /\ id \notin DOMAIN result.self.holds_by_order
                    /\ id \in DOMAIN result.self.margins_by_order
                    /\ result.self.margins_by_order[id]
                       = (pair.quote_symbol :> FilledOpeningMargin(order))
                    /\ MarginOf(result.self, id) = 0
                       <=> (order.opening_quantity = 0
                            \/ amount_filled(order) = 0)

\* C26 witness: both orders are terminal and the terminal update of each
\* was applied (no hold entry is left), and both still have a margin entry:
\* one with the margin of its filled opening quantity, the other, which
\* opens nothing, with 0
C26_Witness ==
    /\ ledger_class = "FuturesAccountBalances"
    /\ holds_by_order = EmptyDict
    /\ DOMAIN margins_by_order = OrderIds
    /\ \E id \in OrderIds :
        /\ orders[id].state = COMPLETED
        /\ MarginOf(Self, id) = OpeningMargin(orders[id])
        /\ MarginOf(Self, id) > 0
        /\ ~is_open(orders[Other(id)])
        /\ orders[Other(id)].opening_quantity = 0
        /\ margins_by_order[Other(id)] = (pair.quote_symbol :> 0)

\* C32 (as claimed): on a futures ledger, once order_accepted has succeeded
\* for an order, every order_updated for that order while it is OPEN, with a
\* delta <= 0 of the hold symbol, succeeds, for any opening quantity and
\* whether or not order_margin_accepted was called.
C32_AcceptedIsEnoughForUpdate ==
    ledger_class = "FuturesAccountBalances" =>
        \A id \in OrderIds, balance_updates \in BalanceUpdates :
            (/\ id \in DOMAIN holds_by_order
             /\ is_open(orders[id])
             /\ Get(balance_updates, get_hold_symbol(orders[id]), 0) <= 0)
            => order_updated(Self, orders[id], balance_updates).raised
               = "none"

\* C33: for an OPEN order with a hold, an order_updated whose delta d of the
\* hold symbol satisfies -amount_on_hold <= d <= 0 lowers the settled
\* balance, the hold of the order and the aggregate hold of that symbol by
\* |d|, so the available balance of the symbol is the same after the call,
\* and the holds of the other orders are unchanged.  (This is also what a
\* futures update leaves behind when it fails in its margin code.)
C33_CoveredFillKeepsAvailable ==
    \A id \in OrderIds, balance_updates \in BalanceUpdates :
        LET symbol == get_hold_symbol(orders[id])
            d == Get(balance_updates, symbol, 0)
            amount_on_hold == get_balance_on_hold_for_order(Self, id, symbol)
        IN  (/\ id \in DOMAIN holds_by_order
             /\ is_open(orders[id])
             /\ 0 - amount_on_hold <= d
             /\ d <= 0)
            => \A updated \in {order_updated(Self, orders[id],
                                             balance_updates).self} :
                /\ Get(updated.balances, symbol, 0)
                   = Get(balances, symbol, 0) + d
                /\ get_balance_on_hold_for_order(updated, id, symbol)
                   = amount_on_hold + d
                /\ get_balance_on_hold(updated, symbol)
                   = get_balance_on_hold(Self, symbol) + d
                /\ get_available_balance(updated, symbol)
                   = get_available_balance(Self, symbol)
                /\ \A other \in OrderIds \ {id}, held \in Symbols :
                    /\ (other \in DOMAIN updated.holds_by_order)
                       <=> (other \in DOMAIN holds_by_order)
                    /\ get_balance_on_hold_for_order(updated, other, held)
                       = get_balance_on_hold_for_order(Self, other, held)

\* a fill of one unit was applied to an open order of the futures ledger
\* that had two units on hold, while the other order holds one unit too: one
\* unit is still on hold for each (the margin of the order was accepted, so
\* the update succeeded)
C33_Witness ==
    \E id \in OrderIds :
        /\ ledger_class = "FuturesAccountBalances"
        /\ is_open(orders[id])
        /\ id \in DOMAIN holds_by_order
        /\ Other(id) \in DOMAIN holds_by_order
        /\ Get(balances, pair.quote_symbol, 0) = MaxHold - 1
        /\ get_balance_on_hold_for_order(Self, id, pair.quote_symbol) = 1
        /\ get_balance_on_hold_for_order(Self, Other(id), pair.quote_symbol)
           = 1
        /\ get_balance_on_hold(Self, pair.quote_symbol) = 2
        /\ id \in DOMAIN margins_by_order

-----------------------------------------------------------------------------
(* Order kinds and the fill algorithm (basana/backtesting/orders.py).      *)
(* Prices are integers: every bar, limit and stop price is a multiple of   *)
(* PriceStep, and a price impact is a number of ImpactScale-ths, so that a *)
(* slipped price is computed exactly.  The optional values of the code     *)
(* (price = None, cap_low = None) are sequences: None or <<value>>.        *)

\* number of price levels of the bars, limit prices and stop prices
MaxPrice == 3
\* largest price impact, in ImpactScale-ths
MaxImpact == 3

ImpactScale == 2
PriceStep == ImpactScale
PriceLevels == {PriceStep * level : level \in 1..MaxPrice}

None == << >>
Some(value) == <<value>>

\* "if price:" of the code: neither None nor 0
truthy(price) == price # None /\ price[1] # 0

\* bar.Bar: the prices get_balance_updates reads (close and volume are not
\* read by the orders)
AllBars == [open : PriceLevels, high : PriceLevels, low : PriceLevels]

\* the bars with low <= open <= high
Bars == {bar \in AllBars : bar.low <= bar.open /\ bar.open <= bar.high}

\* an available liquidity larger than every order amount
UnboundedLiquidity == MaxAmount + 1

\* liquidity.LiquidityStrategy: available_liquidity and the fraction
\* calculate_price_impact returns, in ImpactScale-ths
LiquidityStrategies ==
    [available_liquidity : 0..MaxAmount \cup {UnboundedLiquidity},
     price_impact : 0..MaxImpact]

\* liquidity.InfiniteLiquidity: no price impact, unbounded availability
InfiniteLiquidity ==
    [available_liquidity |-> UnboundedLiquidity, price_impact |-> 0]

\* liquidity_strategy.calculate_price_impact(amount)
calculate_price_impact(liquidity_strategy, amount) ==
    liquidity_strategy.price_impact

\* the caps of slipped_price left out
slipped_price_uncapped(price, operation, amount, liquidity_strategy, cap_low, cap_high) ==
    LET price_impact == calculate_price_impact(liquidity_strategy, amount)
    IN  IF operation = BUY
        THEN (price * (ImpactScale + price_impact)) \div ImpactScale
        ELSE (price * (ImpactScale - price_impact)) \div ImpactScale

\* a slipped_price that ignores cap_high
slipped_price_no_cap_high(price, operation, amount, liquidity_strategy, cap_low, cap_high) ==
    LET slipped == slipped_price_uncapped(price, operation, amount,
                                          liquidity_strategy, cap_low,
                                          cap_high)
    IN  IF cap_low # None THEN Max(slipped, cap_low[1]) ELSE slipped

\* orders.slipped_price
slipped_price(price, operation, amount, liquidity_strategy, cap_low, cap_high) ==
    LET price_impact == calculate_price_impact(liquidity_strategy, amount)
        slipped == IF operation = BUY
                   THEN (price * (ImpactScale + price_impact))
                        \div ImpactScale
                   ELSE (price * (ImpactScale - price_impact))
                        \div ImpactScale
        floored == IF cap_low # None THEN Max(slipped, cap_low[1])
                   ELSE slipped
    IN  IF cap_high # None THEN Min(floored, cap_high[1]) ELSE floored

\* the dict the spot orders and the limit and stop futures orders return
\* for a price that is set
FillAt(order, amount, price) ==
    IF truthy(price) THEN Fill(order.operation, amount, price[1])
    ELSE EmptyDict

\* MarketOrder.get_balance_updates
MarketOrder_get_balance_updates(order, bar, liquidity_strategy) ==
    IF amount_pending(order) > liquidity_strategy.available_liquidity
    THEN EmptyDict
    ELSE
    LET amount == amount_pending(order)
        price == IF order.operation = BUY
                 THEN slipped_price(bar.open, order.operation, amount,
                                    liquidity_strategy, None,
                                    Some(bar.high))
                 ELSE slipped_price(bar.open, order.operation, amount,
                                    liquidity_strategy, Some(bar.low),
                                    None)
    IN  Fill(order.operation, amount, price)

\* a limit order that fills all that is pending or nothing
limit_fill_amount_all(order, liquidity_strategy) == amount_pending(order)

\* a limit order that fills all the liquidity available
limit_fill_amount_available(order, liquidity_strategy) ==
    liquidity_strategy.available_liquidity

\* a limit order that takes nothing of what is available
limit_fill_amount_none(order, liquidity_strategy) == 0

\* the quantity a LimitOrder fills when its price is reached
limit_fill_amount(order, liquidity_strategy) ==
    Min(amount_pending(order), liquidity_strategy.available_liquidity)

\* the price of LimitOrder.get_balance_updates
LimitOrder_price(order, bar, liquidity_strategy, amount) ==
    IF order.operation = BUY
    THEN IF bar.open < order.limit_price
         THEN Some(slipped_price(bar.open, order.operation, amount,
                                 liquidity_strategy, None,
                                 Some(order.limit_price)))
         ELSE IF bar.low <= order.limit_price
         THEN Some(order.limit_price)
         ELSE None
    ELSE IF bar.open > order.limit_price
         THEN Some(slipped_price(bar.open, order.operation, amount,
                                 liquidity_strategy,
                                 Some(order.limit_price), None))
         ELSE IF bar.high >= order.limit_price
         THEN Some(order.limit_price)
         ELSE None

\* LimitOrder.get_balance_updates
LimitOrder_get_balance_updates(order, bar, liquidity_strategy) ==
    LET amount == limit_fill_amount(order, liquidity_strategy)
    IN  FillAt(order, amount,
               LimitOrder_price(order, bar, liquidity_strategy, amount))

\* a stop order that always triggers at the open price of the bar
StopOrder_trigger_price_open(order, bar) ==
    IF order.operation = BUY
    THEN IF bar.open >= order.stop_price \/ bar.high >= order.stop_price
         THEN Some(bar.open) ELSE None
    ELSE IF bar.open <= order.stop_price \/ bar.low <= order.stop_price
         THEN Some(bar.open) ELSE None

\* the price at which the stop of a StopOrder triggers, before slippage
StopOrder_trigger_price(order, bar) ==
    IF order.operation = BUY
    THEN IF bar.open >= order.stop_price THEN Some(bar.open)
         ELSE IF bar.high >= order.stop_price THEN Some(order.stop_price)
         ELSE None
    ELSE IF bar.open <= order.stop_price THEN Some(bar.open)
         ELSE IF bar.low <= order.stop_price THEN Some(order.stop_price)
         ELSE None

\* the price of StopOrder.get_balance_updates
StopOrder_price(order, bar, liquidity_strategy, amount) ==
    LET price == StopOrder_trigger_price(order, bar)
    IN  IF ~truthy(price) THEN price
        ELSE IF order.operation = BUY
        THEN Some(slipped_price(price[1], order.operation, amount,
                                liquidity_strategy, None, Some(bar.high)))
        ELSE Some(slipped_price(price[1], order.operation, amount,
                                liquidity_strategy, Some(bar.low), None))

\* StopOrder.get_balance_updates
StopOrder_get_balance_updates(order, bar, liquidity_strategy) ==
    IF amount_pending(order) > liquidity_strategy.available_liquidity
    THEN EmptyDict
    ELSE
    LET amount == amount_pending(order)
    IN  FillAt(order, amount,
               StopOrder_price(order, bar, liquidity_strategy, amount))

\* a stop that is only looked for at the open of the bar
stop_price_is_hit_at_open(order, bar) ==
    IF order.operation = BUY
    THEN bar.open >= order.stop_price
    ELSE bar.open <= order.stop_price

\* whether the bar hits the stop price of a StopLimitOrder
\* (self._stop_price_hit = True in get_balance_updates_before_stop_hit)
stop_price_is_hit(order, bar) ==
    IF order.operation = BUY
    THEN bar.open >= order.stop_price \/ bar.high >= order.stop_price
    ELSE bar.open <= order.stop_price \/ bar.low <= order.stop_price

\* the price get_balance_updates_before_stop_hit sets before slippage
StopLimitOrder_price_at_stop(order, bar) ==
    LET limit_in_bar == /\ bar.low <= order.limit_price
                        /\ order.limit_price <= bar.high
    IN  IF order.operation = BUY
        THEN IF bar.open >= order.stop_price
             THEN IF bar.open <= order.limit_price THEN Some(bar.open)
                  ELSE IF limit_in_bar THEN Some(order.limit_price)
                  ELSE None
             ELSE IF bar.high >= order.stop_price
             THEN IF limit_in_bar THEN Some(order.limit_price) ELSE None
             ELSE None
        ELSE IF bar.open <= order.stop_price
             THEN IF bar.open >= order.limit_price THEN Some(bar.open)
                  ELSE IF limit_in_bar THEN Some(order.limit_price)
                  ELSE None
             ELSE IF bar.low <= order.stop_price
             THEN IF limit_in_bar THEN Some(order.limit_price) ELSE None
             ELSE None

\* the price of get_balance_updates_before_stop_hit
StopLimitOrder_price_before_stop_hit(order, bar, liquidity_strategy, amount) ==
    LET price == StopLimitOrder_price_at_stop(order, bar)
    IN  IF price # None /\ price[1] # order.limit_price
        THEN IF order.operation = BUY
             THEN Some(slipped_price(price[1], order.operation, amount,
                                     liquidity_strategy, None,
                                     Some(order.limit_price)))
             ELSE Some(slipped_price(price[1], order.operation, amount,
                                     liquidity_strategy,
                                     Some(order.limit_price), None))
        ELSE price

\* StopLimitOrder.get_balance_updates_before_stop_hit: the order with its
\* flag and the returned dict ("if price is not None")
StopLimitOrder_get_balance_updates_before_stop_hit(order, bar, liquidity_strategy) ==
    LET amount == Min(amount_pending(order),
                      liquidity_strategy.available_liquidity)
        price == StopLimitOrder_price_before_stop_hit(
                    order, bar, liquidity_strategy, amount)
    IN  [order |-> [order EXCEPT !.stop_price_hit =
                        @ \/ stop_price_is_hit(order, bar)],
         ret |-> IF price # None
                 THEN Fill(order.operation, amount, price[1])
                 ELSE EmptyDict]

\* an after-stop-hit evaluation that goes on requiring the stop
StopLimitOrder_price_after_stop_hit_with_stop(order, bar, liquidity_strategy, amount) ==
    IF stop_price_is_hit(order, bar)
    THEN LimitOrder_price(order, bar, liquidity_strategy, amount)
    ELSE None

\* the price of StopLimitOrder.get_balance_updates_after_stop_hit
StopLimitOrder_price_after_stop_hit(order, bar, liquidity_strategy, amount) ==
    IF order.operation = BUY
    THEN IF bar.open < order.limit_price
         THEN Some(slipped_price(bar.open, order.operation, amount,
                                 liquidity_strategy, None,
                                 Some(order.limit_price)))
         ELSE IF bar.low <= order.limit_price
         THEN Some(order.limit_price)
         ELSE None
    ELSE IF bar.open > order.limit_price
         THEN Some(slipped_price(bar.open, order.operation, amount,
                                 liquidity_strategy,
                                 Some(order.limit_price), None))
         ELSE IF bar.high >= order.limit_price
         THEN Some(order.limit_price)
         ELSE None

\* StopLimitOrder.get_balance_updates_after_stop_hit
StopLimitOrder_get_balance_updates_after_stop_hit(order, bar, liquidity_strategy) ==
    LET amount == Min(amount_pending(order),
                      liquidity_strategy.available_liquidity)
    IN  FillAt(order, amount,
               StopLimitOrder_price_after_stop_hit(
                    order, bar, liquidity_strategy, amount))

\* a StopLimitOrder whose flag follows the bar: it is cleared by a bar that
\* does not hit the stop price
StopLimitOrder_get_balance_updates_rearming(order, bar, liquidity_strategy) ==
    IF ~order.stop_price_hit
    THEN StopLimitOrder_get_balance_updates_before_stop_hit(
            order, bar, liquidity_strategy)
    ELSE [order |-> [order EXCEPT !.stop_price_hit =
                        stop_price_is_hit(order, bar)],
          ret |-> StopLimitOrder_get_balance_updates_after_stop_hit(
                    order, bar, liquidity_strategy)]

\* StopLimitOrder.get_balance_updates: the order with its flag and the
\* returned dict
StopLimitOrder_get_balance_updates(order, bar, liquidity_strategy) ==
    IF ~order.stop_price_hit
    THEN StopLimitOrder_get_balance_updates_before_stop_hit(
            order, bar, liquidity_strategy)
    ELSE [order |-> order,
          ret |-> StopLimitOrder_get_balance_updates_after_stop_hit(
                    order, bar, liquidity_strategy)]

\* FuturesOrder.quantity_pending
quantity_pending(order) == order.amount - amount_filled(order)

\* MarketFuturesOrder.get_balance_updates: the base quantity and the fill
\* price under the key "price"
MarketFuturesOrder_get_balance_updates(order, bar, liquidity_strategy) ==
    IF amount_pending(order) > liquidity_strategy.available_liquidity
    THEN EmptyDict
    ELSE
    LET quantity == quantity_pending(order)
        base_sign == get_base_sign_for_operation(order.operation)
        price == IF order.operation = BUY
                 THEN slipped_price(bar.open, order.operation, quantity,
                                    liquidity_strategy, None,
                                    Some(bar.high))
                 ELSE slipped_price(bar.open, order.operation, quantity,
                                    liquidity_strategy, Some(bar.low),
                                    None)
    IN  (pair.base_symbol :> quantity * base_sign) @@ ("price" :> price)

\* LimitFuturesOrder.get_balance_updates (the code of LimitOrder with
\* quantity_pending for amount_pending)
LimitFuturesOrder_get_balance_updates(order, bar, liquidity_strategy) ==
    LET quantity == Min(quantity_pending(order),
                        liquidity_strategy.available_liquidity)
    IN  FillAt(order, quantity,
               LimitOrder_price(order, bar, liquidity_strategy, quantity))

\* StopFuturesOrder.get_balance_updates (the code of StopOrder with
\* quantity_pending for amount_pending)
StopFuturesOrder_get_balance_updates(order, bar, liquidity_strategy) ==
    IF quantity_pending(order) > liquidity_strategy.available_liquidity
    THEN EmptyDict
    ELSE
    LET quantity == quantity_pending(order)
    IN  FillAt(order, quantity,
               StopOrder_price(order, bar, liquidity_strategy, quantity))

MarketKinds == {"MarketOrder", "MarketFuturesOrder"}
LimitKinds == {"LimitOrder", "LimitFuturesOrder"}
StopKinds == {"StopOrder", "StopFuturesOrder"}
StopLimitKinds == {"StopLimitOrder"}
OrderKinds == MarketKinds \cup LimitKinds \cup StopKinds \cup StopLimitKinds
FuturesKinds == {"MarketFuturesOrder", "LimitFuturesOrder",
                 "StopFuturesOrder"}

\* a get_balance_updates that records the fill it returns in the order
get_balance_updates_recording(order, bar, liquidity_strategy) ==
    LET result == StopLimitOrder_get_balance_updates(
                    order, bar, liquidity_strategy)
    IN  IF order.kind = "StopLimitOrder"
        THEN [order |-> [result.order EXCEPT
                            !.balance_updates = add_amounts(@, result.ret)],
              ret |-> result.ret]
        ELSE [order |-> order,
              ret |-> LimitOrder_get_balance_updates(
                        order, bar, liquidity_strategy)]

\* order.get_balance_updates(bar, liquidity_strategy), dispatched on the
\* class of the order: the order (a StopLimitOrder may set its flag) and the
\* returned dict
get_balance_updates(order, bar, liquidity_strategy) ==
    IF order.kind = "StopLimitOrder"
    THEN StopLimitOrder_get_balance_updates(order, bar, liquidity_strategy)
    ELSE [order |-> order,
          ret |-> CASE order.kind = "MarketOrder" ->
                        MarketOrder_get_balance_updates(
                            order, bar, liquidity_strategy)
                    [] order.kind = "LimitOrder" ->
                        LimitOrder_get_balance_updates(
                            order, bar, liquidity_strategy)
                    [] order.kind = "StopOrder" ->
                        StopOrder_get_balance_updates(
                            order, bar, liquidity_strategy)
                    [] order.kind = "MarketFuturesOrder" ->
                        MarketFuturesOrder_get_balance_updates(
                            order, bar, liquidity_strategy)
                    [] order.kind = "LimitFuturesOrder" ->
                        LimitFuturesOrder_get_balance_updates(
                            order, bar, liquidity_strategy)
                    [] order.kind = "StopFuturesOrder" ->
                        StopFuturesOrder_get_balance_updates(
                            order, bar, liquidity_strategy)]

\* Order.not_filled: nothing happens
Order_not_filled(order) == [order |-> order, raised |-> "none"]

\* a not_filled of a fill-or-kill order that forgets to cancel
not_filled_stays_open(order) == [order |-> order, raised |-> "none"]

\* MarketOrder.not_filled, StopOrder.not_filled and their futures
\* variants: fill or kill
MarketOrder_not_filled(order) == cancel(order)

\* a not_filled that cancels the market orders and keeps the stop orders
\* open for the next bar
not_filled_market_only(order) ==
    IF order.kind \in MarketKinds
    THEN MarketOrder_not_filled(order)
    ELSE Order_not_filled(order)

\* order.not_filled(), dispatched on the class of the order
not_filled(order) ==
    IF order.kind \in MarketKinds \cup StopKinds
    THEN MarketOrder_not_filled(order)
    ELSE Order_not_filled(order)

-----------------------------------------------------------------------------
(* The state machine of one order of any kind, driven by the calls of the  *)
(* matching loop.  The ledger is not involved and stays as constructed.    *)

\* the id of the order
TheOrder == "1"

\* XxxOrder.__init__: the fields of Order / FuturesOrder and those of the
\* kind (a price the kind does not have is 0)
NewOrderOfKind(kind, operation, limit_price, stop_price) ==
    NewOrder(TheOrder, operation, OrderAmount(TheOrder),
             kind \in FuturesKinds,
             IF kind \in FuturesKinds THEN MaxAmount - 1 ELSE 0,
             IF kind \in FuturesKinds THEN 1 ELSE 0)
    @@ [kind |-> kind, limit_price |-> limit_price,
        stop_price |-> stop_price, stop_price_hit |-> FALSE]

\* the orders the matching loop is given
OrdersOfKinds ==
    {NewOrderOfKind(kind, operation, limit_price, stop_price) :
        kind \in OrderKinds, operation \in OrderOperation,
        limit_price \in PriceLevels \cup {0},
        stop_price \in PriceLevels \cup {0}}

\* the constructors assert limit_price > 0 and stop_price > 0
ValidOrdersOfKinds ==
    {order \in OrdersOfKinds :
        /\ (order.limit_price > 0)
           <=> (order.kind \in LimitKinds \cup StopLimitKinds)
        /\ (order.stop_price > 0)
           <=> (order.kind \in StopKinds \cup StopLimitKinds)}

\* the liquidity strategies of the bars the loop processes: some liquidity
\* is available, with no price impact or the smallest one
SessionLiquidity ==
    {liquidity_strategy \in LiquidityStrategies :
        /\ liquidity_strategy.available_liquidity >= 1
        /\ liquidity_strategy.price_impact <= 1}

InitOrders ==
    /\ ledger_class = "AccountBalances"
    /\ orders \in [{TheOrder} -> ValidOrdersOfKinds]
    /\ balances \in InitialBalances
    /\ holds_by_symbol = EmptyDict
    /\ holds_by_order = EmptyDict
    /\ margins_by_symbol = EmptyDict
    /\ margins_by_order = EmptyDict
    /\ EmptyIndex

\* order.not_filled()
NotFilled(id) ==
    LET result == not_filled(orders[id])
    IN  /\ orders' = [orders EXCEPT ![id] = result.order]
        /\ UNCHANGED <<ledger_class, ledger_vars, index_vars>>

\* order.get_balance_updates(bar, liquidity_strategy), the result dropped
\* (the call changes nothing but the flag of a StopLimitOrder)
GetBalanceUpdates(id, bar, liquidity_strategy) ==
    LET result == get_balance_updates(orders[id], bar, liquidity_strategy)
    IN  /\ orders[id].kind \in StopLimitKinds
        /\ orders' = [orders EXCEPT ![id] = result.order]
        /\ UNCHANGED <<ledger_class, ledger_vars, index_vars>>

\* one pass of the matching loop over an open order: get_balance_updates,
\* then add_fill with what it returned, or not_filled when it returned {}
ProcessOrder(id, bar, liquidity_strategy) ==
    LET result == get_balance_updates(orders[id], bar, liquidity_strategy)
        processed == IF result.ret # EmptyDict
                     THEN add_fill(result.order, result.ret, EmptyDict)
                     ELSE not_filled(result.order)
    IN  /\ is_open(orders[id])
        /\ orders' = [orders EXCEPT ![id] = processed.order]
        /\ UNCHANGED <<ledger_class, ledger_vars, index_vars>>

NextOrders ==
    \/ \E id \in DOMAIN orders : Cancel(id)
    \/ \E id \in DOMAIN orders, price \in Prices :
            AddFill(id, Fill(orders[id].operation, 1, price))
    \/ \E id \in DOMAIN orders : NotFilled(id)
    \/ \E id \in DOMAIN orders, bar \in Bars,
          liquidity_strategy \in SessionLiquidity :
            GetBalanceUpdates(id, bar, liquidity_strategy)
    \/ \E id \in DOMAIN orders, bar \in Bars,
          liquidity_strategy \in SessionLiquidity :
            ProcessOrder(id, bar, liquidity_strategy)

SpecOrders == InitOrders /\ [][NextOrders]_vars

-----------------------------------------------------------------------------
(* Properties of the orders *)

\* C11 (as claimed): once the state of an order is COMPLETED or CANCELED, no
\* add_fill, cancel, not_filled or get_balance_updates call changes it.
C11_TerminalStateNeverChanges ==
    [][\A id \in DOMAIN orders :
        ~is_open(orders[id]) => orders'[id].state = orders[id].state]_vars

RECURSIVE SumOfFills(_, _)
\* the total of the symbol over the fills of a list of Fill records
SumOfFills(fills, symbol) ==
    IF fills = << >> THEN 0
    ELSE Get(Head(fills).balance_updates, symbol, 0)
         + SumOfFills(Tail(fills), symbol)

\* C12: after add_fill on an OPEN order, the state is COMPLETED if and only
\* if the absolute base-symbol total of all the fills of the order is
\* >= amount, and the order is still OPEN otherwise.
C12_CompletedIffFilled ==
    \A id \in DOMAIN orders, balance_updates \in BalanceUpdates :
        is_open(orders[id]) =>
            LET filled == add_fill(orders[id], balance_updates,
                                   EmptyDict).order
                total == Abs(SumOfFills(filled.fills, pair.base_symbol))
            IN  /\ filled.state = COMPLETED <=> total >= filled.amount
                /\ total < filled.amount => filled.state = OPEN

\* C12 witness: a SELL order is OPEN after an add_fill that left part of its
\* amount pending (one more unit completes it)
C12_Witness ==
    \E id \in DOMAIN orders :
        /\ orders[id].operation = SELL
        /\ is_open(orders[id])
        /\ Len(orders[id].fills) = 1
        /\ SumOfFills(orders[id].fills, pair.base_symbol)
           = 1 - orders[id].amount

\* C13: for a Market or Stop order, spot or futures: when amount_pending >
\* available_liquidity, get_balance_updates returns {} whatever the prices of
\* the bar, and not_filled() then moves the (open) order to CANCELED; and
\* when it returns a non-empty dict, the base amount of the dict is the
\* whole amount_pending.
C13_MarketAndStopFillOrKill ==
    \A id \in DOMAIN orders :
        orders[id].kind \in MarketKinds \cup StopKinds =>
            \A bar \in AllBars, liquidity_strategy \in LiquidityStrategies :
                \A result \in {get_balance_updates(orders[id], bar,
                                                   liquidity_strategy)} :
                    /\ amount_pending(orders[id])
                        > liquidity_strategy.available_liquidity =>
                            /\ result.ret = EmptyDict
                            /\ not_filled(result.order).order.state
                               = CANCELED
                            /\ is_open(orders[id]) =>
                                not_filled(result.order).raised = "none"
                    /\ result.ret # EmptyDict =>
                            Abs(result.ret[pair.base_symbol])
                            = amount_pending(orders[id])

\* C13 witness: a stop order with one unit filled and the rest pending was
\* canceled
C13_Witness ==
    \E id \in DOMAIN orders :
        /\ orders[id].kind \in StopKinds
        /\ orders[id].state = CANCELED
        /\ Len(orders[id].fills) = 1
        /\ amount_pending(orders[id]) > 0

\* the bar reaches the limit price of a limit order
LimitIsReached(order, bar) ==
    IF order.operation = BUY
    THEN bar.open < order.limit_price \/ bar.low <= order.limit_price
    ELSE bar.open > order.limit_price \/ bar.high >= order.limit_price

\* C14: a Limit or Stop-Limit order is never fill-or-kill: whenever
\* get_balance_updates returns a fill (and it does whenever the bar reaches
\* the limit price of a Limit order), the filled quantity is exactly
\* min(amount_pending, available_liquidity); and not_filled() leaves the
\* order as it is, so an OPEN order stays OPEN.
C14_LimitFillsWhatIsAvailable ==
    \A id \in DOMAIN orders :
        orders[id].kind \in LimitKinds \cup StopLimitKinds =>
            /\ not_filled(orders[id])
               = [order |-> orders[id], raised |-> "none"]
            /\ \A bar \in Bars,
                  liquidity_strategy \in LiquidityStrategies :
                \A ret \in {get_balance_updates(orders[id], bar,
                                                liquidity_strategy).ret} :
                    /\ ret # EmptyDict =>
                        Abs(ret[pair.base_symbol])
                        = Min(amount_pending(orders[id]),
                              liquidity_strategy.available_liquidity)
                    /\ (/\ orders[id].kind \in LimitKinds
                        /\ LimitIsReached(orders[id], bar)) =>
                            ret # EmptyDict

\* C14 witness: a limit order is OPEN after the matching loop filled one
\* unit of it at a price of the bars and left the rest pending
C14_Witness ==
    \E id \in DOMAIN orders :
        /\ orders[id].kind = "LimitOrder"
        /\ is_open(orders[id])
        /\ Len(orders[id].fills) = 1
        /\ amount_filled(orders[id]) = 1
        /\ Abs(orders[id].balance_updates[pair.quote_symbol]) \in PriceLevels

\* the dict follows the balance delta convention for some quantity q and
\* some price: base = +q and quote = -(price * q) for BUY, the negation for
\* SELL
FollowsDeltaConvention(order, ret) ==
    LET base_sign == IF order.operation = BUY THEN 1 ELSE 0 - 1
    IN  /\ DOMAIN ret = {pair.base_symbol, pair.quote_symbol}
        /\ \E q \in 0..order.amount, price \in 1..(PriceStep * MaxPrice) :
            /\ ret[pair.base_symbol] = base_sign * q
            /\ ret[pair.quote_symbol] = 0 - (base_sign * price * q)

\* C15 (as claimed): every non-empty dict returned by get_balance_updates,
\* for every order kind including MarketFuturesOrder, follows the balance
\* delta convention, with the open price of the bar for a market order
\* under infinite liquidity.
C15_BalanceDeltaConvention ==
    \A id \in DOMAIN orders, bar \in Bars,
       liquidity_strategy \in LiquidityStrategies :
        LET ret == get_balance_updates(orders[id], bar,
                                       liquidity_strategy).ret
        IN  ret # EmptyDict =>
                /\ FollowsDeltaConvention(orders[id], ret)
                /\ (/\ orders[id].kind \in MarketKinds
                    /\ liquidity_strategy = InfiniteLiquidity) =>
                        ret = Fill(orders[id].operation,
                                   amount_pending(orders[id]), bar.open)

\* the execution price of a returned dict with a base amount other than 0:
\* the price a MarketFuturesOrder surfaces, else the quote amount of one
\* base unit
FillPrice(ret) ==
    IF "price" \in DOMAIN ret THEN ret["price"]
    ELSE Abs(ret[pair.quote_symbol]) \div Abs(ret[pair.base_symbol])

\* the order fills all that is pending at the price
FillsAt(order, ret, price) ==
    /\ ret # EmptyDict
    /\ Abs(ret[pair.base_symbol]) = amount_pending(order)
    /\ FillPrice(ret) = price

\* C16: with no price impact and unbounded availability, on every bar with
\* low <= open <= high, an order with something pending: a Market order
\* fills at bar.open; a Limit BUY fills at bar.open when open < limit_price,
\* at limit_price when open >= limit_price and low <= limit_price, and not
\* at all when low > limit_price (SELL mirrored with high); a Stop BUY fills
\* at bar.open when open >= stop_price, at stop_price when
\* open < stop_price <= high, and not at all when high < stop_price (SELL
\* mirrored with low).
C16_InfiniteLiquidityPrices ==
    \A id \in DOMAIN orders, bar \in Bars :
        LET order == orders[id]
            ret == get_balance_updates(order, bar, InfiniteLiquidity).ret
            limit_price == order.limit_price
            stop_price == order.stop_price
        IN  amount_pending(order) > 0 =>
            /\ order.kind \in MarketKinds => FillsAt(order, ret, bar.open)
            /\ (order.kind \in LimitKinds /\ order.operation = BUY) =>
                /\ bar.open < limit_price => FillsAt(order, ret, bar.open)
                /\ (bar.open >= limit_price /\ bar.low <= limit_price) =>
                        FillsAt(order, ret, limit_price)
                /\ bar.low > limit_price => ret = EmptyDict
            /\ (order.kind \in LimitKinds /\ order.operation = SELL) =>
                /\ bar.open > limit_price => FillsAt(order, ret, bar.open)
                /\ (bar.open <= limit_price /\ bar.high >= limit_price) =>
                        FillsAt(order, ret, limit_price)
                /\ bar.high < limit_price => ret = EmptyDict
            /\ (order.kind \in StopKinds /\ order.operation = BUY) =>
                /\ bar.open >= stop_price => FillsAt(order, ret, bar.open)
                /\ (bar.open < stop_price /\ stop_price <= bar.high) =>
                        FillsAt(order, ret, stop_price)
                /\ bar.high < stop_price => ret = EmptyDict
            /\ (order.kind \in StopKinds /\ order.operation = SELL) =>
                /\ bar.open <= stop_price => FillsAt(order, ret, bar.open)
                /\ (bar.open > stop_price /\ stop_price >= bar.low) =>
                        FillsAt(order, ret, stop_price)
                /\ bar.low > stop_price => ret = EmptyDict

\* C16 witness: a BUY stop order with the highest stop price was completed
\* by one fill of its whole amount at the stop price
C16_Witness ==
    \E id \in DOMAIN orders :
        /\ orders[id].kind \in StopKinds
        /\ orders[id].operation = BUY
        /\ orders[id].stop_price = PriceStep * MaxPrice
        /\ orders[id].state = COMPLETED
        /\ Len(orders[id].fills) = 1
        /\ orders[id].balance_updates[pair.quote_symbol]
           = 0 - orders[id].stop_price * orders[id].amount

\* the price of the fill does not violate the limit price of the order:
\* the quote amount is at most (BUY) or at least (SELL) limit_price times
\* the base amount
WithinLimit(order, ret) ==
    ret # EmptyDict =>
        IF order.operation = BUY
        THEN Abs(ret[pair.quote_symbol])
             <= order.limit_price * Abs(ret[pair.base_symbol])
        ELSE Abs(ret[pair.quote_symbol])
             >= order.limit_price * Abs(ret[pair.base_symbol])

\* C17: for every bar and every price impact >= 0, the
\* execution price of a fill of a Limit order, and of a Stop-Limit order in
\* the phase it is in (before or after its stop was hit), is <= limit_price
\* for BUY and >= limit_price for SELL.
C17_LimitPriceNeverViolated ==
    \A id \in DOMAIN orders :
        orders[id].kind \in LimitKinds \cup StopLimitKinds =>
            \A bar \in Bars, liquidity_strategy \in LiquidityStrategies :
                \A ret \in {get_balance_updates(orders[id], bar,
                                                liquidity_strategy).ret} :
                    WithinLimit(orders[id], ret)

\* C17 witness: a BUY stop-limit order whose stop was hit is OPEN with one
\* unit filled by the matching loop at a price below its limit price
C17_Witness ==
    \E id \in DOMAIN orders :
        /\ orders[id].kind \in StopLimitKinds
        /\ orders[id].operation = BUY
        /\ orders[id].stop_price_hit
        /\ is_open(orders[id])
        /\ Len(orders[id].fills) = 1
        /\ amount_filled(orders[id]) = 1
        /\ Abs(orders[id].balance_updates[pair.quote_symbol])
           < orders[id].limit_price
        /\ Abs(orders[id].balance_updates[pair.quote_symbol]) >= PriceStep

\* C18: for every bar with low <= open <= high and every price impact >= 0,
\* the execution price of a fill of a Market or Stop order (spot or futures)
\* lies within [bar.low, bar.high]; for a Market order slippage only moves
\* the price up from bar.open for BUY and down from it for SELL.
C18_MarketAndStopPriceWithinBar ==
    \A id \in DOMAIN orders : \A order \in {orders[id]} :
        (order.kind \in MarketKinds \cup StopKinds
         /\ amount_pending(order) > 0) =>
            \A bar \in Bars, liquidity_strategy \in LiquidityStrategies :
                \A ret \in {get_balance_updates(order, bar,
                                                liquidity_strategy).ret} :
                    ret # EmptyDict =>
                        /\ bar.low <= FillPrice(ret)
                        /\ FillPrice(ret) <= bar.high
                        /\ order.kind \in MarketKinds =>
                            IF order.operation = BUY
                            THEN FillPrice(ret) >= bar.open
                            ELSE FillPrice(ret) <= bar.open

\* C18 witness: a SELL market order was completed by one fill at a slipped
\* price that is not a price of the bar (below the open, above the low)
C18_Witness ==
    \E id \in DOMAIN orders :
        /\ orders[id].kind = "MarketOrder"
        /\ orders[id].operation = SELL
        /\ orders[id].state = COMPLETED
        /\ Len(orders[id].fills) = 1
        /\ orders[id].balance_updates[pair.quote_symbol]
           = (PriceStep + 1) * orders[id].amount

\* C19: the stop_hit flag of a StopLimitOrder starts false, and once it is
\* true no get_balance_updates, add_fill, not_filled or cancel call makes
\* it false again.
C19_StopHitIsOneWay ==
    /\ \A id \in DOMAIN orders : ~orders[id].stop_price_hit
    /\ [][\A id \in DOMAIN orders :
            orders[id].stop_price_hit => orders'[id].stop_price_hit]_vars

\* C19 witness: the stop of a stop-limit order was hit, and the order was
\* canceled with one unit filled and its flag still set
C19_Witness ==
    \E id \in DOMAIN orders :
        /\ orders[id].kind \in StopLimitKinds
        /\ orders[id].stop_price_hit
        /\ orders[id].state = CANCELED
        /\ Len(orders[id].fills) = 1

\* a new LimitOrder with the operation, the pair and the limit price of the
\* order, for the amount the order has pending
LimitOrderFor(order) ==
    [NewOrderOfKind("LimitOrder", order.operation, order.limit_price, 0)
        EXCEPT !.amount = amount_pending(order)]

\* C20: once stop_hit is true, StopLimitOrder.get_balance_updates returns,
\* for every bar and every liquidity strategy, exactly what
\* LimitOrder.get_balance_updates returns for a LimitOrder with the same
\* operation, pair, limit_price and amount_pending (and it leaves the order
\* as it is).
C20_StopLimitIsLimitAfterStopHit ==
    \A id \in DOMAIN orders : \A order \in {orders[id]} :
        (/\ order.kind \in StopLimitKinds
         /\ order.stop_price_hit
         /\ amount_pending(order) > 0) =>
            \A limit_order \in {LimitOrderFor(order)} :
                \A bar \in Bars,
                   liquidity_strategy \in LiquidityStrategies :
                    get_balance_updates(order, bar, liquidity_strategy)
                    = [order |-> order,
                       ret |-> LimitOrder_get_balance_updates(
                                limit_order, bar, liquidity_strategy)]

\* C20 witness: a SELL stop-limit order whose stop was hit is OPEN with one
\* unit filled and the rest pending
C20_Witness ==
    \E id \in DOMAIN orders :
        /\ orders[id].kind \in StopLimitKinds
        /\ orders[id].operation = SELL
        /\ orders[id].stop_price_hit
        /\ is_open(orders[id])
        /\ amount_filled(orders[id]) = 1
        /\ amount_pending(orders[id]) > 0

\* the bar reaches the stop price of the order
StopIsReached(order, bar) ==
    IF order.operation = BUY THEN bar.high >= order.stop_price
    ELSE bar.low <= order.stop_price

\* the stop is hit at the open of the bar and the open satisfies the limit
LimitSatisfiedAtOpen(order, bar) ==
    IF order.operation = BUY
    THEN bar.open >= order.stop_price /\ bar.open <= order.limit_price
    ELSE bar.open <= order.stop_price /\ bar.open >= order.limit_price

\* the limit price lies within the bar
LimitInBar(order, bar) ==
    bar.low <= order.limit_price /\ order.limit_price <= bar.high

\* C21: for a StopLimitOrder with stop_hit false, on every bar with
\* low <= open <= high: when the bar does not reach the stop the result is
\* empty and stop_hit stays false; when it does, stop_hit is true after the
\* call, and the order fills min(amount_pending, available_liquidity) in that
\* bar when the limit is satisfied at the open (stop hit at the open; the
\* price is then between the open and the limit, and the open itself without
\* price impact), or else when low <= limit_price <= high, then at exactly
\* limit_price; when the limit is not reachable the result is empty.
C21_StopLimitBeforeStopHit ==
    \A id \in DOMAIN orders : \A order \in {orders[id]} :
        (order.kind \in StopLimitKinds /\ ~order.stop_price_hit) =>
            \A bar \in Bars, liquidity_strategy \in LiquidityStrategies :
                \A result \in {get_balance_updates(order, bar,
                                                   liquidity_strategy)} :
                \A amount \in {Min(amount_pending(order),
                                   liquidity_strategy.available_liquidity)} :
                    /\ result.order = [order EXCEPT !.stop_price_hit =
                                            StopIsReached(order, bar)]
                    /\ ~StopIsReached(order, bar) => result.ret = EmptyDict
                    /\ (/\ StopIsReached(order, bar)
                        /\ LimitSatisfiedAtOpen(order, bar)) =>
                            /\ result.ret # EmptyDict
                            /\ result.ret[pair.base_symbol]
                               = amount
                                 * get_base_sign_for_operation(
                                        order.operation)
                            /\ WithinLimit(order, result.ret)
                            /\ Abs(result.ret[pair.quote_symbol])
                               >= amount * Min(bar.open, order.limit_price)
                            /\ Abs(result.ret[pair.quote_symbol])
                               <= amount * Max(bar.open, order.limit_price)
                            /\ liquidity_strategy.price_impact = 0 =>
                                result.ret = Fill(order.operation, amount,
                                                  bar.open)
                    /\ (/\ StopIsReached(order, bar)
                        /\ ~LimitSatisfiedAtOpen(order, bar)
                        /\ LimitInBar(order, bar)) =>
                            result.ret = Fill(order.operation, amount,
                                              order.limit_price)
                    /\ (/\ StopIsReached(order, bar)
                        /\ ~LimitSatisfiedAtOpen(order, bar)
                        /\ ~LimitInBar(order, bar)) =>
                            result.ret = EmptyDict

\* C21 witness: a BUY stop-limit order with its stop above its limit was
\* completed by a single fill of its whole amount at exactly its limit
\* price, with its flag set
C21_Witness ==
    \E id \in DOMAIN orders :
        /\ orders[id].kind \in StopLimitKinds
        /\ orders[id].operation = BUY
        /\ orders[id].stop_price > orders[id].limit_price
        /\ orders[id].stop_price_hit
        /\ orders[id].state = COMPLETED
        /\ Len(orders[id].fills) = 1
        /\ orders[id].balance_updates[pair.quote_symbol]
           = 0 - orders[id].limit_price * orders[id].amount

\* the order after one pass over it: get_balance_updates on the bar, and
\* add_fill when the result is not empty
AppliedFill(order, bar, liquidity_strategy) ==
    LET result == get_balance_updates(order, bar, liquidity_strategy)
    IN  IF result.ret # EmptyDict
        THEN add_fill(result.order, result.ret, EmptyDict).order
        ELSE result.order

\* amount_filled is within the amount, and the order is COMPLETED exactly
\* when they are equal
SettledExactly(order) ==
    /\ amount_filled(order) <= order.amount
    /\ amount_pending(order) >= 0
    /\ order.state = COMPLETED <=> amount_filled(order) = order.amount

\* C28: along every sequence of bars and available liquidities >= 0 in
\* which every non-empty get_balance_updates result is applied with
\* add_fill (orders of every kind, with cancellations in between),
\* amount_filled never exceeds amount, amount_pending is never negative, and
\* the order is COMPLETED exactly when amount_filled = amount; and one more
\* bar, whatever its liquidity (none included), keeps it so.
C28_PartialFillsConverge ==
    \A id \in DOMAIN orders : \A order \in {orders[id]} :
        /\ SettledExactly(order)
        /\ \A bar \in Bars, liquidity_strategy \in LiquidityStrategies :
            SettledExactly(AppliedFill(order, bar, liquidity_strategy))

\* C28 witness: a limit order was completed by the matching loop in two
\* partial fills at prices of the bars
C28_Witness ==
    \E id \in DOMAIN orders :
        /\ orders[id].kind \in LimitKinds
        /\ orders[id].state = COMPLETED
        /\ amount_filled(orders[id]) = orders[id].amount
        /\ Len(orders[id].fills) = 2
        /\ \A i \in 1..2 :
            LET fill == orders[id].fills[i].balance_updates
            IN  /\ Abs(fill[pair.base_symbol]) >= 1
                /\ Abs(fill[pair.quote_symbol])
                   >= PriceStep * Abs(fill[pair.base_symbol])

\* the calls that cancel the order: cancel(), and not_filled() on the
\* fill-or-kill kinds
CancelingCalls(order) ==
    {cancel(order)} \cup
    (IF order.kind \in MarketKinds \cup StopKinds
     THEN {not_filled(order)} ELSE {})

\* C34: cancel() succeeds on an OPEN order, whose state becomes CANCELED and
\* whose other fields stay; on an order that is COMPLETED or CANCELED,
\* cancel() (and not_filled() of a Market or Stop order) fails and leaves
\* the state, the balance updates and the fills as they were.
C34_CancelNeedsOpenOrder ==
    \A id \in DOMAIN orders :
        \A result \in CancelingCalls(orders[id]) :
            IF is_open(orders[id])
            THEN /\ result.raised = "none"
                 /\ result.order = [orders[id] EXCEPT !.state = CANCELED]
            ELSE /\ result.raised # "none"
                 /\ result.order.state = orders[id].state
                 /\ result.order.balance_updates = orders[id].balance_updates
                 /\ result.order.fills = orders[id].fills

\* a Stop order that was filled completely in two fills: cancel() and
\* not_filled() fail on it
C34_Witness ==
    \E id \in DOMAIN orders :
        /\ orders[id].kind \in StopKinds
        /\ orders[id].state = COMPLETED
        /\ Len(orders[id].fills) = 2

\* C35: get_balance_updates has no side effect on the order, for every kind,
\* bar and liquidity: the state, the balance updates, the fees, the fills,
\* amount_filled and amount_pending are the same after the call; only the
\* stop_price_hit flag of a StopLimitOrder can differ.
C35_GetBalanceUpdatesHasNoSideEffect ==
    \A id \in DOMAIN orders, bar \in Bars,
       liquidity_strategy \in LiquidityStrategies :
        \A after \in {get_balance_updates(orders[id], bar,
                                          liquidity_strategy).order} :
            /\ after.state = orders[id].state
            /\ after.balance_updates = orders[id].balance_updates
            /\ after.fees = orders[id].fees
            /\ after.fills = orders[id].fills
            /\ amount_filled(after) = amount_filled(orders[id])
            /\ amount_pending(after) = amount_pending(orders[id])
            /\ after = [orders[id] EXCEPT
                            !.stop_price_hit = after.stop_price_hit]
            /\ orders[id].kind \notin StopLimitKinds => after = orders[id]

\* get_balance_updates was called on a stop-limit order and set its flag: the
\* order is OPEN with nothing filled
C35_Witness ==
    \E id \in DOMAIN orders :
        /\ orders[id].kind \in StopLimitKinds
        /\ orders[id].stop_price_hit
        /\ is_open(orders[id])
        /\ orders[id].fills = << >>
        /\ orders[id].balance_updates = EmptyDict

\* the order after one pass of the matching loop over it: get_balance_updates
\* on the bar, then add_fill with the result, or not_filled when it is empty
Processed(order, bar, liquidity_strategy) ==
    LET result == get_balance_updates(order, bar, liquidity_strategy)
    IN  IF result.ret # EmptyDict
        THEN add_fill(result.order, result.ret, EmptyDict).order
        ELSE not_filled(result.order).order

\* the bar does not reach the stop price of a stop order
StopIsMissed(order, bar) ==
    IF order.operation = BUY
    THEN bar.open < order.stop_price /\ bar.high < order.stop_price
    ELSE bar.open > order.stop_price /\ bar.low > order.stop_price

\* C37: under that control flow an OPEN Market or Stop order is not OPEN
\* after a bar on which it is processed, for any bar and liquidity: it is
\* COMPLETED, by one fill of all that was pending (the whole amount on its
\* first bar), or CANCELED with nothing added; a Stop order whose stop price
\* the bar does not reach is CANCELED.
C37_MarketAndStopEndOnFirstBar ==
    \A id \in DOMAIN orders :
        (orders[id].kind \in MarketKinds \cup StopKinds
         /\ is_open(orders[id])) =>
            \A bar \in AllBars, liquidity_strategy \in LiquidityStrategies :
                \A after \in {Processed(orders[id], bar,
                                        liquidity_strategy)} :
                    /\ after.state \in {COMPLETED, CANCELED}
                    /\ after.state = COMPLETED =>
                        /\ Len(after.fills) = Len(orders[id].fills) + 1
                        /\ Abs(after.fills[Len(after.fills)]
                                .balance_updates[pair.base_symbol])
                           = amount_pending(orders[id])
                        /\ amount_filled(after) = after.amount
                    /\ after.state = CANCELED =>
                        after = [orders[id] EXCEPT !.state = CANCELED]
                    /\ (orders[id].kind \in StopKinds
                        /\ StopIsMissed(orders[id], bar)) =>
                            after.state = CANCELED

\* a Stop order was canceled on its first bar, with nothing filled
C37_Witness ==
    \E id \in DOMAIN orders :
        /\ orders[id].kind \in StopKinds
        /\ orders[id].state = CANCELED
        /\ orders[id].fills = << >>
        /\ orders[id].balance_updates = EmptyDict

\* C39 (as claimed): a non-empty result of get_balance_updates is a real
\* fill: for every kind of open order, every bar and every available
\* liquidity >= 0, a result that is not the empty mapping has a base amount
\* that is not 0.
C39_NonEmptyResultIsAFill ==
    \A id \in DOMAIN orders :
        is_open(orders[id]) =>
            \A bar \in Bars, liquidity_strategy \in LiquidityStrategies :
                \A ret \in {get_balance_updates(orders[id], bar,
                                                liquidity_strategy).ret} :
                    ret # EmptyDict => Get(ret, pair.base_symbol, 0) # 0

-----------------------------------------------------------------------------
(* The fills of one order: any sequence of add_fill calls, with fees, on an *)
(* order in any state (nothing keeps a caller from adding a fill to an      *)
(* order that is complete).                                                 *)

\* largest number of add_fill calls followed
MaxFills == 3

\* the fees passed to add_fill
FeeAmounts == {EmptyDict, (pair.quote_symbol :> 1)}

InitFills ==
    /\ ledger_class = "AccountBalances"
    /\ orders \in [{TheOrder} ->
                    {NewOrderOfKind(kind, operation, 0, 0) :
                        kind \in MarketKinds, operation \in OrderOperation}]
    /\ balances \in InitialBalances
    /\ holds_by_symbol = EmptyDict
    /\ holds_by_order = EmptyDict
    /\ margins_by_symbol = EmptyDict
    /\ margins_by_order = EmptyDict
    /\ EmptyIndex

\* order.add_fill(when, balance_updates, fees)
AddFillWithFees(id, balance_updates, fees) ==
    LET result == add_fill(orders[id], balance_updates, fees)
    IN  /\ Len(orders[id].fills) < MaxFills
        /\ orders' = [orders EXCEPT ![id] = result.order]
        /\ UNCHANGED <<ledger_class, ledger_vars, index_vars>>

NextFills ==
    \E id \in DOMAIN orders, balance_updates \in BalanceUpdates,
       fees \in FeeAmounts :
        AddFillWithFees(id, balance_updates, fees)

SpecFills == InitFills /\ [][NextFills]_vars

RECURSIVE SumOfFees(_, _)
\* the total of the symbol over the fees of a list of Fill records
SumOfFees(fills, symbol) ==
    IF fills = << >> THEN 0
    ELSE Get(Head(fills).fees, symbol, 0) + SumOfFees(Tail(fills), symbol)

\* the symbols of the balance deltas, or of the fees, of a list of fills
SymbolsOfFills(fills, field) ==
    UNION {DOMAIN fills[i][field] : i \in 1..Len(fills)}

\* C27: after any sequence of add_fill calls the accumulated balance_updates
\* of the order is, symbol by symbol, the sum of the balance deltas of its
\* recorded fills, and its accumulated fees the sum of their fees; and every
\* add_fill appends one Fill, with the deltas and fees it was given, at the
\* end of the list.
C27_AccumulatedIsSumOfFills ==
    \A id \in DOMAIN orders : \A order \in {orders[id]} :
        /\ DOMAIN order.balance_updates
           = SymbolsOfFills(order.fills, "balance_updates")
        /\ \A symbol \in Symbols :
            Get(order.balance_updates, symbol, 0)
            = SumOfFills(order.fills, symbol)
        /\ DOMAIN order.fees = SymbolsOfFills(order.fills, "fees")
        /\ \A symbol \in Symbols :
            Get(order.fees, symbol, 0) = SumOfFees(order.fills, symbol)
        /\ \A balance_updates \in BalanceUpdates, fees \in FeeAmounts :
            add_fill(order, balance_updates, fees).order.fills
            = Append(order.fills, [balance_updates |-> balance_updates,
                                   fees |-> fees])

\* C27 witness: a BUY order has three fills, a purchase of one unit with a
\* fee, a sale of one unit without fee and a purchase of its whole amount
\* with a fee, in that order
C27_Witness ==
    \E id \in DOMAIN orders :
        /\ orders[id].operation = BUY
        /\ Len(orders[id].fills) = 3
        /\ orders[id].fills[1]
           = [balance_updates |-> Fill(BUY, 1, 1),
              fees |-> (pair.quote_symbol :> 1)]
        /\ orders[id].fills[2]
           = [balance_updates |-> Fill(SELL, 1, 1), fees |-> EmptyDict]
        /\ orders[id].fills[3].balance_updates
           = Fill(BUY, orders[id].amount, 1)
        /\ orders[id].fees = (pair.quote_symbol :> 2)
        /\ orders[id].state = COMPLETED

-----------------------------------------------------------------------------
(* The order index of the exchange: a registry of the orders by id and a    *)
(* cache of the open ones, compacted once every ReindexEvery reads.  The   *)
(* orders of the index live in the variable orders and carry their pair.   *)

\* reads between two compactions of the cache
ReindexEvery == 50

\* a second pair, for the orders and the reads of the index
other_pair == [base_symbol |-> "ETH", quote_symbol |-> "USD"]
IndexPairs == {pair, other_pair}

\* the orders handed to the index
IndexOrders(id) ==
    {NewOrder(id, BUY, OrderAmount(id), TRUE, 0, 0)
        @@ [pair |-> order_pair] :
        order_pair \in IndexPairs}

\* the index object
Index == [orders |-> index_orders, open_orders |-> open_orders,
          reindex_counter |-> reindex_counter]

\* a read that trusts the cache and does not look at the state of the orders
is_listed_unchecked(order, pair_filter) ==
    pair_filter = None \/ order.pair = pair_filter[1]

\* "order.is_open (and order.pair == pair)" of get_open_orders
is_listed(order, pair_filter) ==
    /\ is_open(order)
    /\ pair_filter = None \/ order.pair = pair_filter[1]

RECURSIVE SelectIds(_, _)
\* the ids of the cache whose orders are listed, in the order of the cache
SelectIds(ids, pair_filter) ==
    IF ids = << >> THEN << >>
    ELSE IF is_listed(orders[Head(ids)], pair_filter)
         THEN <<Head(ids)>> \o SelectIds(Tail(ids), pair_filter)
         ELSE SelectIds(Tail(ids), pair_filter)

\* OrderIndex.add_order
add_order(index, order) ==
    [index EXCEPT
        !.orders = @ \cup {order.id},
        !.open_orders = IF is_open(order) THEN Append(@, order.id) ELSE @]

\* OrderIndex.get_open_orders(pair): the orders of the cache that are open
\* now; every ReindexEvery-th read drops from the cache the orders that are
\* not (the counter is kept modulo ReindexEvery)
get_open_orders(index, pair_filter) ==
    [index |-> [index EXCEPT
                    !.reindex_counter = (@ + 1) % ReindexEvery,
                    !.open_orders =
                        IF (index.reindex_counter + 1) % ReindexEvery = 0
                        THEN SelectIds(@, None)
                        ELSE @],
     ret |-> SelectIds(index.open_orders, pair_filter)]

InitIndex ==
    /\ ledger_class = "FuturesAccountBalances"
    /\ orders \in {o \in [OrderIds -> UNION {IndexOrders(id) :
                                                id \in OrderIds}] :
                     \A id \in OrderIds : o[id].id = id}
    /\ balances \in InitialBalances
    /\ holds_by_symbol = EmptyDict
    /\ holds_by_order = EmptyDict
    /\ margins_by_symbol = EmptyDict
    /\ margins_by_order = EmptyDict
    /\ EmptyIndex

AssignIndex(index) ==
    /\ index_orders' = index.orders
    /\ open_orders' = index.open_orders
    /\ reindex_counter' = index.reindex_counter

\* idx.add_order(order); ids are unique
AddOrder(id) ==
    /\ id \notin index_orders
    /\ AssignIndex(add_order(Index, orders[id]))
    /\ UNCHANGED <<ledger_class, orders, ledger_vars>>

\* idx.get_open_orders(pair), read to the end
GetOpenOrders(pair_filter) ==
    /\ AssignIndex(get_open_orders(Index, pair_filter).index)
    /\ UNCHANGED <<ledger_class, orders, ledger_vars>>

NextIndex ==
    \/ \E id \in OrderIds : AddOrder(id)
    \/ \E id \in OrderIds : Cancel(id)
    \/ \E id \in OrderIds, price \in Prices :
            AddFill(id, Fill(orders[id].operation, 1, price))
    \/ \E pair_filter \in {None} \cup {Some(p) : p \in IndexPairs} :
            GetOpenOrders(pair_filter)

SpecIndex == InitIndex /\ [][NextIndex]_vars

\* the ids of a sequence of ids
Range(ids) == {ids[i] : i \in 1..Len(ids)}

\* C29: whatever orders were added and whatever happened to them since
\* (cancel, fills up to completion), and however many reads there were since
\* the cache was compacted, a get_open_orders read returns, each once,
\* exactly the added orders that are OPEN now, and with a pair exactly those
\* of them that trade the pair.
C29_OpenOrdersReadIsExact ==
    \A pair_filter \in {None} \cup {Some(p) : p \in IndexPairs} :
        \A ret \in {get_open_orders(Index, pair_filter).ret} :
            /\ Range(ret)
               = {id \in index_orders :
                    /\ orders[id].state = OPEN
                    /\ pair_filter # None =>
                        orders[id].pair = pair_filter[1]}
            /\ Len(ret) = Cardinality(Range(ret))

\* C29 witness: two orders on different pairs were added and read, one was
\* canceled and the cache still has both, a number of reads after the last
\* compaction
C29_Witness ==
    /\ index_orders = OrderIds
    /\ Len(open_orders) = 2
    /\ reindex_counter > 2
    /\ \E id \in OrderIds :
        /\ orders[id].state = CANCELED
        /\ is_open(orders[Other(id)])
        /\ orders[id].pair # orders[Other(id)].pair

-----------------------------------------------------------------------------
(* The split of the quantity of a new futures order between the part that  *)
(* opens a position and the part that closes the current one               *)
(* (helpers.get_trade_side_quantities).  The current position is the       *)
(* settled balance of the base symbol.                                     *)

\* a split that closes against any position, whatever its sign
get_trade_side_quantities_unsigned(current_position, operation, quantity) ==
    IF current_position = 0
    THEN [opening_quantity |-> quantity, closing_quantity |-> 0]
    ELSE IF Abs(current_position) >= quantity
    THEN [opening_quantity |-> 0, closing_quantity |-> quantity]
    ELSE [opening_quantity |-> quantity - Abs(current_position),
          closing_quantity |-> Abs(current_position)]

\* helpers.get_trade_side_quantities
get_trade_side_quantities(current_position, operation, quantity) ==
    LET operation_sign == get_base_sign_for_operation(operation)
    IN  IF current_position * operation_sign >= 0
        THEN [opening_quantity |-> quantity, closing_quantity |-> 0]
        ELSE IF Abs(current_position) >= quantity
        THEN [opening_quantity |-> 0, closing_quantity |-> quantity]
        ELSE [opening_quantity |-> quantity - Abs(current_position),
              closing_quantity |-> Abs(current_position)]

\* the current position in the contract
CurrentPosition == Get(balances, pair.base_symbol, 0)

InitTradeSide ==
    /\ ledger_class = "FuturesAccountBalances"
    /\ orders = EmptyDict
    /\ balances \in {(pair.base_symbol :> current_position) :
                        current_position
                            \in (0 - MaxBalance)..MaxBalance}
    /\ holds_by_symbol = EmptyDict
    /\ holds_by_order = EmptyDict
    /\ margins_by_symbol = EmptyDict
    /\ margins_by_order = EmptyDict
    /\ EmptyIndex

\* a futures order is created for the quantity, split by
\* get_trade_side_quantities on the current position
TradeSideQuantities(id, operation, quantity) ==
    LET trade_side_quantities ==
            get_trade_side_quantities(CurrentPosition, operation, quantity)
    IN  /\ id \notin DOMAIN orders
        /\ orders' = Put(orders, id,
                NewOrder(id, operation, quantity, TRUE,
                         trade_side_quantities.opening_quantity,
                         trade_side_quantities.closing_quantity))
        /\ UNCHANGED <<ledger_class, ledger_vars, index_vars>>

NextTradeSide ==
    \E id \in OrderIds, operation \in OrderOperation,
       quantity \in 1..MaxAmount :
        TradeSideQuantities(id, operation, quantity)

SpecTradeSide == InitTradeSide /\ [][NextTradeSide]_vars

\* C30: the opening and the closing quantity get_trade_side_quantities
\* returns are not negative and add up to the quantity; the closing
\* quantity is 0 when the position is zero or has the sign of the operation
\* (long for BUY, short for SELL), and min(quantity, |current_position|)
\* when the position has the opposite sign.
C30_TradeSideQuantities ==
    \A id \in DOMAIN orders : \A order \in {orders[id]} :
        /\ order.opening_quantity >= 0
        /\ order.closing_quantity >= 0
        /\ order.opening_quantity + order.closing_quantity = order.amount
        /\ order.closing_quantity
           = IF \/ CurrentPosition = 0
                \/ CurrentPosition > 0 /\ order.operation = BUY
                \/ CurrentPosition < 0 /\ order.operation = SELL
             THEN 0
             ELSE IF order.amount <= Abs(CurrentPosition)
             THEN order.amount
             ELSE Abs(CurrentPosition)

\* C30 witness: a SELL order for more than the long position closes the
\* position and opens a short one with the rest, next to a BUY order that
\* only opens
C30_Witness ==
    /\ CurrentPosition > 0
    /\ DOMAIN orders = OrderIds
    /\ \E id \in OrderIds :
        /\ orders[id].operation = SELL
        /\ orders[id].closing_quantity = CurrentPosition
        /\ orders[id].opening_quantity > 0
        /\ orders[Other(id)].operation = BUY
        /\ orders[Other(id)].closing_quantity = 0
        /\ orders[Other(id)].opening_quantity = orders[Other(id)].amount

-----------------------------------------------------------------------------
(* The futures orders with every split the constructor accepts: the        *)
(* opening and the closing quantity are two independent arguments of       *)
(* FuturesOrder.__init__ (both default to 0), driven by the calls of the   *)
(* matching loop.                                                          *)

\* FuturesOrder.opening_quantity_filled
opening_quantity_filled(order) ==
    Min(Abs(Get(order.balance_updates, pair.base_symbol, 0)),
        order.opening_quantity)

\* FuturesOrder.opening_quantity_pending
opening_quantity_pending(order) ==
    order.opening_quantity - opening_quantity_filled(order)

\* FuturesOrder.closing_quantity_filled
closing_quantity_filled(order) ==
    Min(Abs(Get(order.balance_updates, pair.base_symbol, 0)),
        order.closing_quantity)

\* FuturesOrder.closing_quantity_pending
closing_quantity_pending(order) ==
    order.closing_quantity - closing_quantity_filled(order)

\* XxxFuturesOrder.__init__ with both quantities given
NewFuturesOrder(kind, operation, limit_price, stop_price, opening_quantity, closing_quantity) ==
    NewOrder(TheOrder, operation, OrderAmount(TheOrder), TRUE,
             opening_quantity, closing_quantity)
    @@ [kind |-> kind, limit_price |-> limit_price,
        stop_price |-> stop_price, stop_price_hit |-> FALSE]

\* the futures orders the constructors accept (limit_price > 0 and
\* stop_price > 0 where the kind has one), for every pair of quantities
FuturesOrders ==
    {NewFuturesOrder(kind, operation,
                     IF kind \in LimitKinds THEN price ELSE 0,
                     IF kind \in StopKinds THEN price ELSE 0,
                     opening_quantity, closing_quantity) :
        kind \in FuturesKinds, operation \in OrderOperation,
        price \in PriceLevels,
        opening_quantity \in 0..MaxAmount,
        closing_quantity \in 0..MaxAmount}

InitFutures ==
    /\ ledger_class = "FuturesAccountBalances"
    /\ orders \in [{TheOrder} -> FuturesOrders]
    /\ balances \in InitialBalances
    /\ holds_by_symbol = EmptyDict
    /\ holds_by_order = EmptyDict
    /\ margins_by_symbol = EmptyDict
    /\ margins_by_order = EmptyDict
    /\ EmptyIndex

NextFutures ==
    \/ \E id \in DOMAIN orders : Cancel(id)
    \/ \E id \in DOMAIN orders, price \in Prices :
            AddFill(id, Fill(orders[id].operation, 1, price))
    \/ \E id \in DOMAIN orders : NotFilled(id)
    \/ \E id \in DOMAIN orders, bar \in Bars,
          liquidity_strategy \in SessionLiquidity :
            ProcessOrder(id, bar, liquidity_strategy)

SpecFutures == InitFutures /\ [][NextFutures]_vars

\* the two quantities of the order add up to its quantity
IsPartitioned(order) ==
    order.opening_quantity + order.closing_quantity = order.amount

\* C31 (as claimed): every FuturesOrder has opening_quantity +
\* closing_quantity = quantity from its creation on.
C31_EveryOrderIsPartitioned ==
    \A id \in DOMAIN orders :
        orders[id].futures => IsPartitioned(orders[id])

\* C31: the opening and the closing quantity of a FuturesOrder are the values
\* passed at its creation and no call changes them (nor the quantity), so an
\* order created with opening_quantity + closing_quantity = quantity keeps
\* that equation for its whole life, and one created otherwise never gets it.
C31_QuantitiesFixedAtCreation ==
    [][\A id \in DOMAIN orders :
        /\ orders'[id].opening_quantity = orders[id].opening_quantity
        /\ orders'[id].closing_quantity = orders[id].closing_quantity
        /\ orders'[id].amount = orders[id].amount
        /\ IsPartitioned(orders'[id]) <=> IsPartitioned(orders[id])]_vars

\* a partitioned order that was filled in part and then canceled
C31_Witness ==
    \E id \in DOMAIN orders :
        /\ orders[id].futures
        /\ IsPartitioned(orders[id])
        /\ orders[id].opening_quantity > 0
        /\ orders[id].closing_quantity > 0
        /\ Len(orders[id].fills) > 0
        /\ orders[id].state = CANCELED

\* C40 (as claimed): for a FuturesOrder created with opening_quantity +
\* closing_quantity = quantity, after any fills the filled quantity is split
\* between the two sides: opening_quantity_filled + closing_quantity_filled
\* = quantity_filled and opening_quantity_pending + closing_quantity_pending
\* = quantity_pending.
C40_FilledSplitIsConsistent ==
    \A id \in DOMAIN orders :
        (orders[id].futures /\ IsPartitioned(orders[id])) =>
            /\ opening_quantity_filled(orders[id])
               + closing_quantity_filled(orders[id])
               = amount_filled(orders[id])
            /\ opening_quantity_pending(orders[id])
               + closing_quantity_pending(orders[id])
               = quantity_pending(orders[id])

-----------------------------------------------------------------------------
(* A limit order in the matching loop when every bar reaches its limit     *)
(* price and offers at least one unit of liquidity: each pass is           *)
(* get_balance_updates followed by add_fill (or not_filled).  The loop     *)
(* goes on as long as the order is open, which is the weak fairness of     *)
(* the pass.                                                               *)

\* the passes the loop makes over one order at most (more than an order has
\* units)
MaxBars == MaxAmount + 1

\* the limit orders the loop is given
LimitOrders == {order \in ValidOrdersOfKinds : order.kind \in LimitKinds}

InitLimit ==
    /\ ledger_class = "AccountBalances"
    /\ orders \in [{TheOrder} -> LimitOrders]
    /\ balances \in InitialBalances
    /\ holds_by_symbol = EmptyDict
    /\ holds_by_order = EmptyDict
    /\ margins_by_symbol = EmptyDict
    /\ margins_by_order = EmptyDict
    /\ EmptyIndex

\* one pass over the open order on a bar that reaches its limit price, with
\* one unit or more available
ProcessReachedLimit(id, bar, liquidity_strategy) ==
    /\ LimitIsReached(orders[id], bar)
    /\ liquidity_strategy.available_liquidity >= 1
    /\ Len(orders[id].fills) < MaxBars
    /\ ProcessOrder(id, bar, liquidity_strategy)

NextLimit ==
    \E id \in DOMAIN orders, bar \in Bars,
       liquidity_strategy \in LiquidityStrategies :
        ProcessReachedLimit(id, bar, liquidity_strategy)

SpecLimit == InitLimit /\ [][NextLimit]_vars /\ WF_vars(NextLimit)

\* C36: a Limit order processed on successive bars that reach its limit
\* price and offer at least one unit of liquidity, its fills applied with
\* add_fill, is eventually COMPLETED.
C36_LimitOrderEventuallyCompleted ==
    <>(\A id \in DOMAIN orders : orders[id].state = COMPLETED)

\* a limit futures order was completed one unit at a time
C36_Witness ==
    \E id \in DOMAIN orders :
        /\ orders[id].kind = "LimitFuturesOrder"
        /\ orders[id].state = COMPLETED
        /\ Len(orders[id].fills) = orders[id].amount
        /\ amount_pending(orders[id]) = 0

\* the ledgers in which the futures order was accepted, hold and margin
AcceptedLedgers(order) ==
    {margin_accepted.self :
        margin_accepted \in
            {order_margin_accepted(
                accepted.self, order,
                (pair.quote_symbol :>
                    order.opening_quantity * MarginRequirement)) :
             accepted \in
                {result \in {FuturesAccountBalances_order_accepted(
                                Self, order, required_balance) :
                             required_balance \in RequiredBalances} :
                    result.raised = "none"}}}

\* C38 (as claimed): for an accepted futures order, BUY or SELL, a fill that
\* get_balance_updates produces and that leaves the order OPEN is applied by
\* FuturesAccountBalances.order_updated without failing its precondition on
\* the amount spent of the hold symbol.
C38_PartialFillsCanBeApplied ==
    \A id \in DOMAIN orders :
        (orders[id].futures /\ is_open(orders[id])) =>
            \A bar \in Bars, liquidity_strategy \in LiquidityStrategies :
                \A ret \in {get_balance_updates(orders[id], bar,
                                                liquidity_strategy).ret} :
                    \A filled \in {add_fill(orders[id], ret,
                                            EmptyDict).order} :
                        (ret # EmptyDict /\ is_open(filled)) =>
                            \A self \in AcceptedLedgers(orders[id]) :
                                FuturesAccountBalances_order_updated(
                                    self, filled, ret).raised = "none"

====
